---- MODULE Spec2Model ----
(***************************************************************************)
(* Schedule-inator (CP-SAT timetable model).                               *)
(*                                                                         *)
(* The program builds a constraint model (run_scheduler, src/scheduler.py) *)
(* and solves it twice (run_two_pass_scheduler, src/main.py).  A solve is  *)
(* modelled as the choice of ANY assignment of the decision variables that *)
(* satisfies every constraint the code posts; the constraints are the      *)
(* operators below, one per block of run_scheduler.                        *)
(*                                                                         *)
(* Conventions                                                             *)
(*  - Python lists are functions over 0..n-1 (f_idx, r_idx, b_idx, d_idx   *)
(*    and slot indices are the code's 0-based indices).                    *)
(*  - None (an optional integer that is not set) is the value None = -1.   *)
(*  - Config hours are kept in minutes (hours * 60), so that               *)
(*    int(hours * 60 / G) is minutes \div G.                               *)
(*  - start, duration and end of an absent (inactive) meeting occur only   *)
(*    in constraints guarded by, or multiplied with, the presence literal; *)
(*    the model reports them at the lowest value of their domain.          *)
(***************************************************************************)
EXTENDS Integers, Sequences, FiniteSets, TLC

VARIABLES
    config,              \* configuration dictionary
    subjects,            \* list of Subject
    rooms,               \* list of Room
    faculty,             \* list of Faculty
    batches,             \* list of Batch
    pc,                  \* position in run_two_pass_scheduler
    status_pass1,        \* status of the Pass-1 solve
    solver,              \* values of the last solve (solver.Value), or NoSolution
    structural_minimum,  \* results_pass1["pass1_structural_violations"]
    pass1_hints,         \* structural values extracted from Pass 1
    status,              \* status returned to the caller
    ts_in,               \* time_slot / streak assignment of the timeslot_system package
    filtered_subjects,   \* filter_infeasible_subjects: the subjects kept so far
    removed_subjects,    \* filter_infeasible_subjects: the subjects removed so far
    filter_in,           \* faculty and batches as passed to filter_infeasible_subjects
    results,             \* result bundle of the last run_scheduler call
    exit_code            \* result code of the main program, or None while it runs

vars == <<config, subjects, rooms, faculty, batches, pc, status_pass1, solver,
          structural_minimum, pass1_hints, status, ts_in,
          filtered_subjects, removed_subjects, filter_in, results, exit_code>>

filter_vars == <<filtered_subjects, removed_subjects, filter_in>>

inputs == <<config, subjects, rooms, faculty, batches>>

None == -1
NoSolution == [none |-> TRUE]
NoHints == [none |-> TRUE]
NoResults == [none |-> TRUE]

\* ---------------------------------------------------------------- bounds
NumDays == 3
DaySlots == 4
MaxPop == 2
TsLen == 4
MaxRequired == 150
MaxMeetings == 3

\* ------------------------------------------------------- generic helpers
List(seq) == [i \in 0..(Len(seq) - 1) |-> seq[i + 1]]

len(l) == Cardinality(DOMAIN l)

Range(l) == {l[i] : i \in DOMAIN l}

RECURSIVE SumSet(_, _)
SumSet(S, f) ==
    IF S = {} THEN 0
    ELSE LET x == CHOOSE y \in S : TRUE
         IN f[x] + SumSet(S \ {x}, f)

B2I(b) == IF b THEN 1 ELSE 0

Max2(a, b) == IF a >= b THEN a ELSE b

Min2(a, b) == IF a <= b THEN a ELSE b

MinOf(S) == CHOOSE x \in S : \A y \in S : x <= y

RECURSIVE Product(_)
Product(ch) ==
    IF DOMAIN ch = {} THEN {<<>>}
    ELSE LET k == CHOOSE x \in DOMAIN ch : TRUE
             rest == Product([x \in (DOMAIN ch) \ {k} |-> ch[x]])
         IN {(k :> v) @@ r : v \in ch[k], r \in rest}

\* ------------------------------------------------- data model accessors
MINUTES_IN_A_DAY == 1440
FRIDAY_IDX == 4

Days(I) == 0..(Len(I.config.SCHEDULING_DAYS) - 1)

TIME_GRANULARITY(I) == I.config.TIME_GRANULARITY_MINUTES

DUMMY_FACULTY_IDX(I) == len(I.faculty)
DUMMY_ROOM_IDX(I) == len(I.rooms)

SubjectSet(I) == Range(I.subjects)

subjects_map(I, id) == CHOOSE sub \in SubjectSet(I) : sub.subject_id = id

Sections(I) ==
    UNION {{<<sub.subject_id, s>> : s \in 0..(sub.ideal_num_sections - 1)} : sub \in SubjectSet(I)}

Enrolls(I, b_idx, sub_id) == sub_id \in I.batches[b_idx].subjects

subject_qualified_faculty(I, sub) ==
    {f_idx \in DOMAIN I.faculty : sub.subject_id \in I.faculty[f_idx].qualified_subject_ids}

subject_possible_rooms(I, sub) ==
    {r_idx \in DOMAIN I.rooms : I.rooms[r_idx].room_type_id = sub.room_type_id}

is_lab_subject(sub) ==
    IF sub.linked_subject_id = None \/ sub.linked_subject_id = 0 THEN FALSE
    ELSE sub.subject_type_is_lab

\* a weaker rule: every day ends at DAY_END_MINUTES
day_end_times_no_friday(I, d_idx) == I.config.DAY_END_MINUTES

day_end_times(I, d_idx) ==
    IF d_idx = FRIDAY_IDX THEN I.config.FRIDAY_END_MINUTES ELSE I.config.DAY_END_MINUTES

\* ------------------------------------------ variable domains (VARIABLES)
Truthy(x) == x # None /\ x # 0

start_domain(I, d_idx) ==
    LET day_start == I.config.DAY_START_MINUTES + d_idx * MINUTES_IN_A_DAY
        day_end == day_end_times(I, d_idx) + d_idx * MINUTES_IN_A_DAY
    IN {t \in day_start..day_end : (t - day_start) % TIME_GRANULARITY(I) = 0}

\* for n in range(min_meetings, max_meetings + 1): d = required // n ...
RECURSIVE DurLoop(_, _, _)
\* a weaker rule: every quotient is kept, also below 60 minutes
DurLoopNoFloor(sub, n, acc) ==
    acc \cup {sub.required_weekly_minutes \div k : k \in n..sub.max_meetings}

DurLoop(sub, n, acc) ==
    IF n > sub.max_meetings THEN acc
    ELSE LET d == sub.required_weekly_minutes \div n
         IN IF d >= 60
            THEN IF d = 60 THEN acc \cup {d}
                 ELSE DurLoop(sub, n + 1, acc \cup {d})
            ELSE acc

MissingMeetings(sub) ==
    /\ sub.max_meetings # 0
    /\ ~(Truthy(sub.min_meetings) /\ Truthy(sub.max_meetings))

allowed_duration_values(sub) ==
    IF sub.max_meetings = 0 THEN {0}
    ELSE DurLoop(sub, sub.min_meetings, {})

max_duration(sub) ==
    LET a == allowed_duration_values(sub)
    IN IF a = {} THEN 0 ELSE CHOOSE x \in a : \A y \in a : y <= x

\* NewIntVar(0, max_duration) restricted by AddAllowedAssignments when the list is non-empty
duration_domain(sub) ==
    IF allowed_duration_values(sub) # {} THEN allowed_duration_values(sub)
    ELSE 0..max_duration(sub)

InactiveMeeting(I, sub, d_idx) ==
    [start |-> MinOf(start_domain(I, d_idx)), duration |-> MinOf(duration_domain(sub)),
     end |-> MinOf(start_domain(I, d_idx)), is_active |-> FALSE]

\* NewOptionalIntervalVar(start, duration, end, is_active): start + duration = end when present
MeetingVals(I, sub, d_idx) ==
    {InactiveMeeting(I, sub, d_idx)} \cup
    {m \in [start : start_domain(I, d_idx), duration : duration_domain(sub),
            end : start_domain(I, d_idx), is_active : {TRUE}] :
        m.start + m.duration = m.end}

SAKeys(I) ==
    {x \in {<<k[1], k[2], b_idx>> : k \in Sections(I), b_idx \in DOMAIN I.batches} :
        Enrolls(I, x[3], x[1])}

\* ------------------------------------------------------------------------
\* A candidate c assigns the decision variables of the model:
\*   c.section_assignments[<<sub_id, s, b_idx>>], c.assigned_faculty[<<sub_id, s>>],
\*   c.assigned_room[<<sub_id, s>>], c.meetings[<<sub_id, s, d_idx>>],
\*   c.has_duration_violation[<<sub_id, s>>].
\* Booleans the code reifies in both directions (b <=> condition) are the
\* operators below that compute the condition.
\* ------------------------------------------------------------------------
SectionDays(I, key) == {<<key[1], key[2], d_idx>> : d_idx \in Days(I)}

raw_is_dummy_faculty(I, c, key) == c.assigned_faculty[key] = DUMMY_FACULTY_IDX(I)

raw_is_dummy_room(I, c, key) == c.assigned_room[key] = DUMMY_ROOM_IDX(I)

\* AddAllowedAssignments on assigned_faculty / assigned_room
AllowedResources(I, c, key) ==
    LET sub == subjects_map(I, key[1])
    IN /\ c.assigned_faculty[key] \in subject_qualified_faculty(I, sub) \cup {DUMMY_FACULTY_IDX(I)}
       /\ c.assigned_room[key] \in subject_possible_rooms(I, sub) \cup {DUMMY_ROOM_IDX(I)}

\* a weaker rule: only the dummy faculty forces the meetings inactive
DummyFacultyForcesInactive(I, c, key) ==
    \A mk \in SectionDays(I, key) :
        raw_is_dummy_faculty(I, c, key) => ~c.meetings[mk].is_active

\* Force meeting inactive if dummy faculty or dummy room
DummyForcesInactive(I, c, key) ==
    \A mk \in SectionDays(I, key) :
        /\ raw_is_dummy_faculty(I, c, key) => ~c.meetings[mk].is_active
        /\ raw_is_dummy_room(I, c, key) => ~c.meetings[mk].is_active

\* Force subjects with max_meetings = 0 to have no active meetings
ZeroMeetingSubjects(I, c, key) ==
    subjects_map(I, key[1]).max_meetings = 0 =>
        \A mk \in SectionDays(I, key) :
            ~c.meetings[mk].is_active /\ c.meetings[mk].duration = 0

is_assigned_faculty(c, f_idx, key) == c.assigned_faculty[key] = f_idx

is_assigned_room(c, r_idx, key) == c.assigned_room[key] = r_idx

is_assigned_batch(I, c, b_idx, key) ==
    c.section_assignments[<<key[1], key[2], b_idx>>] = I.batches[b_idx].population

active_for_faculty(c, f_idx, mk) ==
    is_assigned_faculty(c, f_idx, <<mk[1], mk[2]>>) /\ c.meetings[mk].is_active

active_for_room(c, r_idx, mk) ==
    is_assigned_room(c, r_idx, <<mk[1], mk[2]>>) /\ c.meetings[mk].is_active

active_for_batch(I, c, b_idx, mk) ==
    is_assigned_batch(I, c, b_idx, <<mk[1], mk[2]>>) /\ c.meetings[mk].is_active

\* keys of active_for_faculty_map / active_for_room_map / active_for_batch_map
FacultyMeetingKeys(I, f_idx) ==
    UNION {SectionDays(I, key) : key \in {k \in Sections(I) :
        f_idx \in subject_qualified_faculty(I, subjects_map(I, k[1]))}}

RoomMeetingKeys(I, r_idx) ==
    UNION {SectionDays(I, key) : key \in {k \in Sections(I) :
        r_idx \in subject_possible_rooms(I, subjects_map(I, k[1]))}}

BatchMeetingKeys(I, b_idx) ==
    UNION {SectionDays(I, key) : key \in {k \in Sections(I) : Enrolls(I, b_idx, k[1])}}

\* a weaker rule: one section takes the whole batch, the others may keep a part of it
BatchSectionAssignmentSplit(I, sa, b_idx, sub) ==
    LET secs == 0..(sub.ideal_num_sections - 1)
        pop_s(s) == sa[<<sub.subject_id, s, b_idx>>]
        y_s(s) == pop_s(s) = I.batches[b_idx].population
    IN /\ \A s \in secs : pop_s(s) \in 0..I.batches[b_idx].population
       /\ Cardinality({s \in secs : y_s(s)}) = 1

\* [HARD] A batch can't be split across sections - must go to exactly one
BatchSectionAssignment(I, sa, b_idx, sub) ==
    LET secs == 0..(sub.ideal_num_sections - 1)
        pop_s(s) == sa[<<sub.subject_id, s, b_idx>>]
        y_s(s) == pop_s(s) = I.batches[b_idx].population
    IN /\ \A s \in secs : pop_s(s) \in 0..I.batches[b_idx].population
       /\ \A s \in secs : ~y_s(s) => pop_s(s) = 0
       /\ Cardinality({s \in secs : y_s(s)}) = 1

section_has_batch(I, c, key) ==
    \E b_idx \in DOMAIN I.batches :
        Enrolls(I, b_idx, key[1]) /\ is_assigned_batch(I, c, b_idx, key)

\* gated dummy indicators
is_dummy_faculty(I, c, key) == section_has_batch(I, c, key) /\ raw_is_dummy_faculty(I, c, key)

is_dummy_room(I, c, key) == section_has_batch(I, c, key) /\ raw_is_dummy_room(I, c, key)

\* a weaker rule: an unused section keeps whatever resources and meetings it has
ForceUnusedSkipped(I, c, key) == TRUE

\* When section_has_batch is False, force dummy faculty/room and inactive meetings
ForceUnused(I, c, key) ==
    ~section_has_batch(I, c, key) =>
        /\ c.assigned_faculty[key] = DUMMY_FACULTY_IDX(I)
        /\ c.assigned_room[key] = DUMMY_ROOM_IDX(I)
        /\ \A mk \in SectionDays(I, key) : ~c.meetings[mk].is_active

\* total_duration = sum of duration * is_active (AddMultiplicationEquality)
total_duration(I, c, key) ==
    SumSet(SectionDays(I, key),
           [mk \in SectionDays(I, key) |->
               c.meetings[mk].duration * B2I(c.meetings[mk].is_active)])

no_meetings(I, c, key) == \A mk \in SectionDays(I, key) : ~c.meetings[mk].is_active

MIN_DURATION_FOR_REAL_FACULTY == 1
MIN_DURATION_FOR_REAL_ROOM == 1

\* a weaker rule: without the slack the total may also fall short
DurationConstraintAtMost(I, c, key) ==
    LET sub == subjects_map(I, key[1])
    IN /\ total_duration(I, c, key) <= sub.required_weekly_minutes
       /\ c.has_duration_violation[key] => total_duration(I, c, key) < sub.required_weekly_minutes
       /\ no_meetings(I, c, key) =>
             /\ c.assigned_faculty[key] = DUMMY_FACULTY_IDX(I)
             /\ c.assigned_room[key] = DUMMY_ROOM_IDX(I)
       /\ ~raw_is_dummy_faculty(I, c, key) => total_duration(I, c, key) >= MIN_DURATION_FOR_REAL_FACULTY
       /\ ~raw_is_dummy_room(I, c, key) => total_duration(I, c, key) >= MIN_DURATION_FOR_REAL_ROOM

\* [HARD-RELAXED] Duration constraint with boolean slack
DurationConstraint(I, c, key) ==
    LET sub == subjects_map(I, key[1])
    IN /\ ~c.has_duration_violation[key] => total_duration(I, c, key) = sub.required_weekly_minutes
       /\ c.has_duration_violation[key] => total_duration(I, c, key) < sub.required_weekly_minutes
       /\ no_meetings(I, c, key) =>
             /\ c.assigned_faculty[key] = DUMMY_FACULTY_IDX(I)
             /\ c.assigned_room[key] = DUMMY_ROOM_IDX(I)
       /\ ~raw_is_dummy_faculty(I, c, key) => total_duration(I, c, key) >= MIN_DURATION_FOR_REAL_FACULTY
       /\ ~raw_is_dummy_room(I, c, key) => total_duration(I, c, key) >= MIN_DURATION_FOR_REAL_ROOM

\* a weaker rule: the violation counts whether or not the section has students
duration_violations_ungated(I, c, key) == c.has_duration_violation[key]

duration_violations(I, c, key) == section_has_batch(I, c, key) /\ c.has_duration_violation[key]

\* a weaker rule: meetings of a section may fall on any days
MeetingSeparationOff(I, c, key) == TRUE

\* [HARD] Force at least 1 day apart per meeting
MeetingSeparation(I, c, key) ==
    \A d1 \in Days(I) : \A d2 \in Days(I) :
        (d2 > d1 /\ d2 - d1 = 1) =>
            ~(c.meetings[<<key[1], key[2], d1>>].is_active
              /\ c.meetings[<<key[1], key[2], d2>>].is_active)

total_students_in_section(I, c, key) ==
    LET bs == {b_idx \in DOMAIN I.batches : Enrolls(I, b_idx, key[1])}
    IN SumSet(bs, [b_idx \in bs |-> c.section_assignments[<<key[1], key[2], b_idx>>]])

room_capacities(I) == [r_idx \in 0..len(I.rooms) |->
                        IF r_idx = len(I.rooms) THEN 9999 ELSE I.rooms[r_idx].capacity]

\* Room capacity enforcement using Element constraint
RoomCapacity(I, c, key) ==
    section_has_batch(I, c, key) =>
        total_students_in_section(I, c, key) <= room_capacities(I)[c.assigned_room[key]]

\* ------------------------------------------------- lecture / lab (HARD)
LabSubjects(I) == {sub \in SubjectSet(I) : is_lab_subject(sub)}

\* the dictionary look-ups of the lecture-lab block succeed (no KeyError)
LinkedKeysExist(I) ==
    \A sub \in LabSubjects(I) : \A s \in 0..(sub.ideal_num_sections - 1) :
        /\ <<sub.linked_subject_id, s>> \in Sections(I)
        /\ \A b_idx \in DOMAIN I.batches :
              Enrolls(I, b_idx, sub.subject_id) => Enrolls(I, b_idx, sub.linked_subject_id)

\* All lecture/lab pair meetings have same students
LectureLabStudents(I, sa) ==
    \A sub \in LabSubjects(I) : \A s \in 0..(sub.ideal_num_sections - 1) :
        \A b_idx \in DOMAIN I.batches :
            Enrolls(I, b_idx, sub.subject_id) =>
                sa[<<sub.subject_id, s, b_idx>>] = sa[<<sub.linked_subject_id, s, b_idx>>]

\* a weaker rule: lecture and lab meet on the same days, in any order
LectureLabAnyOrder(I, c) ==
    \A sub \in LabSubjects(I) : \A s \in 0..(sub.ideal_num_sections - 1) :
        LET lab == <<sub.subject_id, s>>
            lec == <<sub.linked_subject_id, s>>
        IN /\ \A d_idx \in Days(I) :
                /\ c.meetings[<<lab[1], s, d_idx>>].is_active
                       = c.meetings[<<lec[1], s, d_idx>>].is_active
                /\ c.assigned_faculty[lab] = c.assigned_faculty[lec]
                /\ c.assigned_room[lab] = c.assigned_room[lec]
           /\ (~no_meetings(I, c, lab)) = (~no_meetings(I, c, lec))

\* Consecutive Lecture then Lab; same teacher and room; both have active meetings or none
LectureLab(I, c) ==
    \A sub \in LabSubjects(I) : \A s \in 0..(sub.ideal_num_sections - 1) :
        LET lab == <<sub.subject_id, s>>
            lec == <<sub.linked_subject_id, s>>
        IN /\ \A d_idx \in Days(I) :
                LET lab_meeting == c.meetings[<<lab[1], s, d_idx>>]
                    lec_meeting == c.meetings[<<lec[1], s, d_idx>>]
                IN /\ lab_meeting.is_active = lec_meeting.is_active
                   /\ lab_meeting.is_active => lab_meeting.start = lec_meeting.end
                   /\ c.assigned_faculty[lab] = c.assigned_faculty[lec]
                   /\ c.assigned_room[lab] = c.assigned_room[lec]
           /\ (~no_meetings(I, c, lab)) = (~no_meetings(I, c, lec))

\* ------------------------------------------------- NoOverlap (HARD)
Interval(id, start, end) == [id |-> id, start |-> start, end |-> end]

\* AddNoOverlap: the present intervals are pairwise disjoint
NoOverlap(ivs) ==
    \A a \in ivs : \A b \in ivs :
        a.id # b.id => (a.end <= b.start \/ b.end <= a.start)

ClassInterval(c, mk) ==
    Interval(<<0, mk[1], mk[2], mk[3]>>, c.meetings[mk].start, c.meetings[mk].end)

RoomIntervals(I, c, r_idx) ==
    {ClassInterval(c, mk) : mk \in {k \in RoomMeetingKeys(I, r_idx) : active_for_room(c, r_idx, k)}}

FacultyIntervals(I, c, f_idx) ==
    {ClassInterval(c, mk) : mk \in {k \in FacultyMeetingKeys(I, f_idx) : active_for_faculty(c, f_idx, k)}}

\* External meetings (fixed intervals for batches), trimmed to the day boundaries
ExternalIntervals(I, b_idx) ==
    LET ext == I.batches[b_idx].external_meetings
        day_offset(k) == ext[k].day_index * MINUTES_IN_A_DAY
        start_abs_min(k) == Max2(ext[k].start_minutes + day_offset(k),
                                 I.config.DAY_START_MINUTES + day_offset(k))
        end_abs_min(k) == Min2(ext[k].end_minutes + day_offset(k),
                               day_end_times(I, ext[k].day_index) + day_offset(k))
    IN {Interval(<<2, k, 0, 0>>, start_abs_min(k), end_abs_min(k)) :
            k \in {j \in DOMAIN ext : end_abs_min(j) - start_abs_min(j) > 0}}

\* a weaker rule: the external meetings are left out of the batch intervals
BatchIntervalsClassesOnly(I, c, b_idx) ==
    {ClassInterval(c, mk) : mk \in {k \in BatchMeetingKeys(I, b_idx) : active_for_batch(I, c, b_idx, k)}}

BatchIntervals(I, c, b_idx) ==
    ExternalIntervals(I, b_idx) \cup
    {ClassInterval(c, mk) : mk \in {k \in BatchMeetingKeys(I, b_idx) : active_for_batch(I, c, b_idx, k)}}

RoomNoOverlap(I, c) == \A r_idx \in DOMAIN I.rooms : NoOverlap(RoomIntervals(I, c, r_idx))

\* ------------------------------------------------- ghost blocks
calculate_slots_for_day(I, day_idx) ==
    (day_end_times(I, day_idx) - I.config.DAY_START_MINUTES) \div TIME_GRANULARITY(I)

SlotIdx(I, day_idx) == 0..(calculate_slots_for_day(I, day_idx) - 1)

\* the ghost intervals of one day that are present (ghost_active)
GhostIntervals(I, day_idx, ghost_active) ==
    LET ghost_start(i) == I.config.DAY_START_MINUTES + day_idx * MINUTES_IN_A_DAY
                          + i * TIME_GRANULARITY(I)
    IN {Interval(<<1, day_idx, i, 0>>, ghost_start(i), ghost_start(i) + TIME_GRANULARITY(I)) :
            i \in {j \in DOMAIN ghost_active : ghost_active[j]}}

GhostMinutes(I, ghost_active) ==
    Cardinality({i \in DOMAIN ghost_active : ghost_active[i]}) * TIME_GRANULARITY(I)

\* Conservation for Faculty (per day): total_class_minutes of the faculty
faculty_class_minutes(I, c, f_idx, day_idx) ==
    LET keys == {mk \in FacultyMeetingKeys(I, f_idx) : mk[3] = day_idx}
    IN SumSet(keys, [mk \in keys |->
           c.meetings[mk].duration * B2I(active_for_faculty(c, f_idx, mk))])

\* Conservation for Batches (per day): classes plus the external meetings of the day
batch_class_minutes(I, c, b_idx, day_idx) ==
    LET keys == {mk \in BatchMeetingKeys(I, b_idx) : mk[3] = day_idx}
        ext == I.batches[b_idx].external_meetings
        exts == {k \in DOMAIN ext : ext[k].day_index = day_idx
                                    /\ ext[k].end_minutes - ext[k].start_minutes > 0}
    IN SumSet(keys, [mk \in keys |->
           c.meetings[mk].duration * B2I(active_for_batch(I, c, b_idx, mk))])
       + SumSet(exts, [k \in exts |-> ext[k].end_minutes - ext[k].start_minutes])

\* total_ghost_minutes + total_class_minutes == total_day_minutes
Conservation(I, day_idx, ghost_active, total_class_minutes) ==
    GhostMinutes(I, ghost_active) + total_class_minutes
        = calculate_slots_for_day(I, day_idx) * TIME_GRANULARITY(I)

\* Inverter: time_slot = NOT ghost_active
Inverter(ghost_active, time_slot) ==
    \A i \in DOMAIN ghost_active :
        /\ ~ghost_active[i] => time_slot[i]
        /\ ghost_active[i] => ~time_slot[i]

\* ------------------------------------------------- streak analysis
\* ActiveStreak[i]: consecutive CLASS slots ending at i (prev is ActiveStreak[i-1])
ActiveStreakRule(time_slot, i, prev_active, active_streak) ==
    IF i = 0
    THEN /\ time_slot[i] => active_streak = 1
         /\ ~time_slot[i] => active_streak = 0
    ELSE /\ ~time_slot[i] => active_streak = 0
         /\ time_slot[i] => active_streak = prev_active + 1

\* VacantStreak[i]: consecutive GAP slots ending at i (prev is VacantStreak[i-1])
VacantStreakRule(time_slot, i, prev_vacant, vacant_streak) ==
    IF i = 0
    THEN /\ ~time_slot[i] => vacant_streak = 1
         /\ time_slot[i] => vacant_streak = 0
    ELSE /\ time_slot[i] => vacant_streak = 0
         /\ ~time_slot[i] => vacant_streak = prev_vacant + 1

\* all assignments of active_streak[0..i] (IntVar 0..N each) that satisfy the rule
RECURSIVE ActiveStreakVectors(_, _)
ActiveStreakVectors(time_slot, i) ==
    IF i < 0 THEN {<<>>}
    ELSE UNION {{(i :> v) @@ prev :
                    v \in {x \in 0..len(time_slot) :
                        ActiveStreakRule(time_slot, i, IF i = 0 THEN 0 ELSE prev[i - 1], x)}} :
                prev \in ActiveStreakVectors(time_slot, i - 1)}

RECURSIVE VacantStreakVectors(_, _)
VacantStreakVectors(time_slot, i) ==
    IF i < 0 THEN {<<>>}
    ELSE UNION {{(i :> v) @@ prev :
                    v \in {x \in 0..len(time_slot) :
                        VacantStreakRule(time_slot, i, IF i = 0 THEN 0 ELSE prev[i - 1], x)}} :
                prev \in VacantStreakVectors(time_slot, i - 1)}

MAX_CLASS_SLOTS(I) == I.config.MAX_CONTINUOUS_CLASS_MINUTES \div I.config.TIME_GRANULARITY_MINUTES

MIN_GAP_SLOTS(I) == I.config.MIN_GAP_MINUTES \div I.config.TIME_GRANULARITY_MINUTES

\* run_scheduler: gap_ends_here = NOT time_slot[i] AND time_slot[i+1]
gap_ends_here(time_slot, i) == ~time_slot[i] /\ time_slot[i + 1]

\* a weaker rule: the minimum gap only, no limit on continuous class
HardSlotConstraintsGapOnly(I, time_slot, active_streak, vacant_streak) ==
    \A i \in DOMAIN time_slot :
        i < len(time_slot) - 1 =>
            (gap_ends_here(time_slot, i) => vacant_streak[i] >= MIN_GAP_SLOTS(I))

\* HARD: Max Continuous Class and Min Gap, per slot
HardSlotConstraints(I, time_slot, active_streak, vacant_streak) ==
    \A i \in DOMAIN time_slot :
        /\ active_streak[i] <= MAX_CLASS_SLOTS(I)
        /\ i < len(time_slot) - 1 =>
              (gap_ends_here(time_slot, i) => vacant_streak[i] >= MIN_GAP_SLOTS(I))

\* the slot variables of one entity-day, given its ghost vectors
SlotRecords(I, ghosts, day_idx) ==
    UNION {UNION {
        {sl \in [ghost_active : {g}, time_slot : {t},
                 active_streak : ActiveStreakVectors(t, len(t) - 1),
                 vacant_streak : VacantStreakVectors(t, len(t) - 1)] :
            HardSlotConstraints(I, sl.time_slot, sl.active_streak, sl.vacant_streak)} :
        t \in {x \in [SlotIdx(I, day_idx) -> BOOLEAN] : Inverter(g, x)}} :
      g \in ghosts}

\* NO-OVERLAP + GHOST COLLISION: the intervals of an entity with the ghosts of one day
GhostCollision(I, intervals, day_idx, ghost_active) ==
    NoOverlap(intervals \cup GhostIntervals(I, day_idx, ghost_active))

\* FACULTY NO-OVERLAP + GHOST COLLISION and conservation: the slots of a faculty-day
FacultySlotChoices(I, c, f_idx, day_idx) ==
    LET total_class_minutes == faculty_class_minutes(I, c, f_idx, day_idx)
        intervals == FacultyIntervals(I, c, f_idx)
    IN SlotRecords(I, {g \in [SlotIdx(I, day_idx) -> BOOLEAN] :
                       /\ Conservation(I, day_idx, g, total_class_minutes)
                       /\ GhostCollision(I, intervals, day_idx, g)}, day_idx)

\* BATCH NO-OVERLAP + GHOST COLLISION + EXTERNAL MEETINGS and conservation
BatchSlotChoices(I, c, b_idx, day_idx) ==
    LET total_class_minutes == batch_class_minutes(I, c, b_idx, day_idx)
        intervals == BatchIntervals(I, c, b_idx)
    IN SlotRecords(I, {g \in [SlotIdx(I, day_idx) -> BOOLEAN] :
                       /\ Conservation(I, day_idx, g, total_class_minutes)
                       /\ GhostCollision(I, intervals, day_idx, g)}, day_idx)

\* ------------------------------------------------- max subjects per faculty
RECURSIVE CanonFold(_, _, _)
CanonFold(I, i, canon) ==
    IF i >= len(I.subjects) THEN canon
    ELSE LET sub == I.subjects[i]
         IN IF Truthy(sub.linked_subject_id)
            THEN LET root == Min2(sub.subject_id, sub.linked_subject_id)
                     c1 == (sub.subject_id :> root) @@ canon
                     c2 == IF sub.linked_subject_id \in DOMAIN c1 THEN c1
                           ELSE (sub.linked_subject_id :> root) @@ c1
                 IN CanonFold(I, i + 1, c2)
            ELSE CanonFold(I, i + 1, (sub.subject_id :> sub.subject_id) @@ canon)

canonical_subject(I) == CanonFold(I, 0, <<>>)

\* the subject whose sections build the flag of a canonical id: the first in list
\* order that has that canonical id and at least one section
FlagSubject(I, canon_id) ==
    LET idx == {i \in DOMAIN I.subjects :
                    /\ canonical_subject(I)[I.subjects[i].subject_id] = canon_id
                    /\ I.subjects[i].ideal_num_sections > 0}
    IN I.subjects[MinOf(idx)]

FlaggedCanonIds(I) ==
    {canonical_subject(I)[sub.subject_id] :
        sub \in {x \in SubjectSet(I) : x.ideal_num_sections > 0}}

subject_assigned_flag(I, c, f_idx, canon_id) ==
    \E s \in 0..(FlagSubject(I, canon_id).ideal_num_sections - 1) :
        c.assigned_faculty[<<FlagSubject(I, canon_id).subject_id, s>>] = f_idx

\* [HARD] Enforce max subjects per faculty (linked subjects count as one)
MaxSubjects(I, c) ==
    \A f_idx \in DOMAIN I.faculty :
        (Truthy(I.faculty[f_idx].max_subjects) /\ I.faculty[f_idx].max_subjects > 0) =>
            Cardinality({canon_id \in FlaggedCanonIds(I) :
                            subject_assigned_flag(I, c, f_idx, canon_id)})
                <= I.faculty[f_idx].max_subjects

\* ------------------------------------------------- faculty hours
total_minutes_worked(I, c, f_idx) ==
    SumSet(FacultyMeetingKeys(I, f_idx),
           [mk \in FacultyMeetingKeys(I, f_idx) |->
               IF active_for_faculty(c, f_idx, mk) THEN c.meetings[mk].duration ELSE 0])

TrackerMax == 10000

\* a weaker rule: the trackers only, without the hard maximum
FacultyHoursTrackersOnly(I, c) ==
    \A f_idx \in DOMAIN I.faculty :
        LET max_minutes == I.faculty[f_idx].max_hours * 60
            min_minutes == I.faculty[f_idx].min_hours * 60
        IN /\ total_minutes_worked(I, c, f_idx) - max_minutes <= TrackerMax
           /\ I.faculty[f_idx].min_hours > 0 =>
                 min_minutes - total_minutes_worked(I, c, f_idx) <= TrackerMax

\* overload / underfill trackers (IntVar 0..10000: a value above the posted lower
\* bound exists iff the bound is at most 10000) and the hard maximum
FacultyHours(I, c) ==
    \A f_idx \in DOMAIN I.faculty :
        LET max_minutes == I.faculty[f_idx].max_hours * 60
            min_minutes == I.faculty[f_idx].min_hours * 60
        IN /\ total_minutes_worked(I, c, f_idx) - max_minutes <= TrackerMax
           /\ I.faculty[f_idx].min_hours > 0 =>
                 min_minutes - total_minutes_worked(I, c, f_idx) <= TrackerMax
           /\ I.faculty[f_idx].max_hours > 0 =>
                 max_minutes >= total_minutes_worked(I, c, f_idx)

\* ------------------------------------------------- day gap tracking
InteriorDays(I) == 1..(Len(I.config.SCHEDULING_DAYS) - 2)

faculty_has_class(I, c, f_idx, day_idx) ==
    \E mk \in FacultyMeetingKeys(I, f_idx) : mk[3] = day_idx /\ active_for_faculty(c, f_idx, mk)

batch_has_class(I, c, b_idx, day_idx) ==
    \E mk \in BatchMeetingKeys(I, b_idx) : mk[3] = day_idx /\ active_for_batch(I, c, b_idx, mk)

\* is_day_gap = NOT has_class[day_idx] AND has_before AND has_after
is_day_gap(I, has_class, day_idx) ==
    /\ ~has_class[day_idx]
    /\ \E d \in Days(I) : d < day_idx /\ has_class[d]
    /\ \E d \in Days(I) : d > day_idx /\ has_class[d]

faculty_day_gaps(I, c) ==
    [f_idx \in DOMAIN I.faculty |->
        [day_idx \in InteriorDays(I) |->
            B2I(is_day_gap(I, [d \in Days(I) |-> faculty_has_class(I, c, f_idx, d)], day_idx))]]

batch_day_gaps(I, c) ==
    [b_idx \in DOMAIN I.batches |->
        [day_idx \in InteriorDays(I) |->
            B2I(is_day_gap(I, [d \in Days(I) |-> batch_has_class(I, c, b_idx, d)], day_idx))]]

\* ------------------------------------------------- structural slack variables
\* results["violations"] of Pass 1: the value of every structural boolean
Violations(I, c) ==
    [is_dummy_faculty |-> [key \in Sections(I) |-> B2I(is_dummy_faculty(I, c, key))],
     is_dummy_room |-> [key \in Sections(I) |-> B2I(is_dummy_room(I, c, key))],
     duration_violations |-> [key \in Sections(I) |-> B2I(duration_violations(I, c, key))],
     faculty_day_gaps |-> faculty_day_gaps(I, c),
     batch_day_gaps |-> batch_day_gaps(I, c)]

SumFn(f) == SumSet(DOMAIN f, f)

SumFn2(f) == SumSet(DOMAIN f, [x \in DOMAIN f |-> SumFn(f[x])])

\* total_structural_violations == sum(structural_violations)
total_structural_violations(v) ==
    SumFn(v.is_dummy_faculty) + SumFn(v.is_dummy_room) + SumFn(v.duration_violations)
    + SumFn2(v.faculty_day_gaps) + SumFn2(v.batch_day_gaps)

\* ------------------------------------------------- Pass 2 set-up
\* a weaker rule: the day gaps are not locked, and the limit is one too high
StructuralLockLoose(I, v, lock_mode, hints, structural_limit) ==
    IF lock_mode = "exact"
    THEN /\ \A key \in DOMAIN hints.is_dummy_faculty :
                key \in Sections(I) => v.is_dummy_faculty[key] = hints.is_dummy_faculty[key]
         /\ \A key \in DOMAIN hints.is_dummy_room :
                key \in Sections(I) => v.is_dummy_room[key] = hints.is_dummy_room[key]
         /\ \A key \in DOMAIN hints.duration_violations :
                key \in Sections(I) => v.duration_violations[key] = hints.duration_violations[key]
    ELSE total_structural_violations(v) <= structural_limit + 1

\* PASS 2 SETUP: lock the structural outcome of Pass 1
StructuralLock(I, v, lock_mode, hints, structural_limit) ==
    IF lock_mode = "exact"
    THEN /\ \A key \in DOMAIN hints.is_dummy_faculty :
                key \in Sections(I) => v.is_dummy_faculty[key] = hints.is_dummy_faculty[key]
         /\ \A key \in DOMAIN hints.is_dummy_room :
                key \in Sections(I) => v.is_dummy_room[key] = hints.is_dummy_room[key]
         /\ \A key \in DOMAIN hints.duration_violations :
                key \in Sections(I) => v.duration_violations[key] = hints.duration_violations[key]
         /\ \A f_idx \in DOMAIN hints.faculty_day_gaps :
                f_idx \in DOMAIN v.faculty_day_gaps =>
                    \A d \in DOMAIN hints.faculty_day_gaps[f_idx] :
                        d \in DOMAIN v.faculty_day_gaps[f_idx] =>
                            v.faculty_day_gaps[f_idx][d] = hints.faculty_day_gaps[f_idx][d]
         /\ \A b_idx \in DOMAIN hints.batch_day_gaps :
                b_idx \in DOMAIN v.batch_day_gaps =>
                    \A d \in DOMAIN hints.batch_day_gaps[b_idx] :
                        d \in DOMAIN v.batch_day_gaps[b_idx] =>
                            v.batch_day_gaps[b_idx][d] = hints.batch_day_gaps[b_idx][d]
    ELSE total_structural_violations(v) <= structural_limit

\* [SOFT] section overfill tracker: IntVar 0..(max_enrollment or 40) * 2 that must
\* reach total_students - max_students when the section has a batch
SectionFill(I, c, key) ==
    LET sub == subjects_map(I, key[1])
        max_students == IF Truthy(sub.max_enrollment) /\ sub.max_enrollment > 0
                        THEN sub.max_enrollment ELSE 40
        tracker_max == (IF Truthy(sub.max_enrollment) THEN sub.max_enrollment ELSE 40) * 2
    IN section_has_batch(I, c, key) =>
           total_students_in_section(I, c, key) - max_students <= tracker_max

\* ------------------------------------------------- the solutions of the model
MaxPopulation(I) ==
    IF DOMAIN I.batches = {} THEN 0
    ELSE CHOOSE x \in {I.batches[b].population : b \in DOMAIN I.batches} :
            \A b \in DOMAIN I.batches : I.batches[b].population <= x

\* the assignments of section_assignments that satisfy the batch constraints
SASet(I) ==
    {sa \in [SAKeys(I) -> 0..MaxPopulation(I)] :
        /\ \A b_idx \in DOMAIN I.batches : \A sub \in SubjectSet(I) :
              Enrolls(I, b_idx, sub.subject_id) => BatchSectionAssignment(I, sa, b_idx, sub)
        /\ LectureLabStudents(I, sa)}

\* the constraints that mention the variables of one section only
SectionConstraints(I, c, key) ==
    /\ AllowedResources(I, c, key)
    /\ ForceUnused(I, c, key)
    /\ DummyForcesInactive(I, c, key)
    /\ ZeroMeetingSubjects(I, c, key)
    /\ MeetingSeparation(I, c, key)
    /\ DurationConstraint(I, c, key)
    /\ RoomCapacity(I, c, key)

SectionCandidate(sa, key, ch) ==
    [section_assignments |-> sa,
     assigned_faculty |-> (key :> ch.f),
     assigned_room |-> (key :> ch.r),
     meetings |-> ch.m,
     has_duration_violation |-> (key :> ch.dv)]

SectionChoices(I, sa, key) ==
    {ch \in [f : 0..DUMMY_FACULTY_IDX(I), r : 0..DUMMY_ROOM_IDX(I), dv : BOOLEAN,
             m : Product([mk \in SectionDays(I, key) |->
                             MeetingVals(I, subjects_map(I, key[1]), mk[3])])] :
        SectionConstraints(I, SectionCandidate(sa, key, ch), key)}

Candidate(I, sa, chs) ==
    [section_assignments |-> sa,
     assigned_faculty |-> [key \in Sections(I) |-> chs[key].f],
     assigned_room |-> [key \in Sections(I) |-> chs[key].r],
     meetings |-> [mk \in UNION {SectionDays(I, key) : key \in Sections(I)} |->
                      chs[<<mk[1], mk[2]>>].m[mk]],
     has_duration_violation |-> [key \in Sections(I) |-> chs[key].dv]]

\* the constraints that relate several sections (the slot grids are added below)
CrossConstraints(I, c) ==
    /\ LectureLab(I, c)
    /\ RoomNoOverlap(I, c)
    /\ MaxSubjects(I, c)
    /\ FacultyHours(I, c)

\* a weaker rule: the faculty without preferred subjects are tracked too
NonPreferredKeysAnyPreferredSet(I) ==
    {k \in {<<f_idx, key[1], key[2]>> : f_idx \in DOMAIN I.faculty, key \in Sections(I)} :
        /\ k[2] \notin I.faculty[k[1]].preferred_subject_ids
        /\ k[2] \in I.faculty[k[1]].qualified_subject_ids}

\* [SOFT] Track non-preferred subject assignments: the (f_idx, sub_id, s) that get a
\* non_preferred BoolVar
NonPreferredKeys(I) ==
    {k \in {<<f_idx, key[1], key[2]>> : f_idx \in DOMAIN I.faculty, key \in Sections(I)} :
        /\ I.faculty[k[1]].preferred_subject_ids # {}
        /\ k[2] \notin I.faculty[k[1]].preferred_subject_ids
        /\ k[2] \in I.faculty[k[1]].qualified_subject_ids}

\* non_preferred is 1 exactly when assigned_faculty[key] == f_idx
faculty_non_preferred_subject(I, c) ==
    [k \in NonPreferredKeys(I) |-> c.assigned_faculty[<<k[2], k[3]>>] = k[1]]

\* the terms flag * NON_PREFERRED_SUBJECT_PER_SECTION appended to penalties
non_preferred_penalties(I, c) ==
    [k \in NonPreferredKeys(I) |->
        B2I(faculty_non_preferred_subject(I, c)[k])
            * I.config.ConstraintPenalties.NON_PREFERRED_SUBJECT_PER_SECTION]

\* build_soft_constraints: the Pass-2 trackers must fit their domains
SoftConstraints(I, c) == \A key \in Sections(I) : SectionFill(I, c, key)

FacultyDays(I) == {<<f_idx, d>> : f_idx \in DOMAIN I.faculty, d \in Days(I)}
BatchDays(I) == {<<b_idx, d>> : b_idx \in DOMAIN I.batches, d \in Days(I)}

\* the value of every variable after a solve (solver.Value)
Solution(I, c, fslots, bslots) ==
    [section_assignments |-> c.section_assignments,
     assigned_faculty |-> c.assigned_faculty,
     assigned_room |-> c.assigned_room,
     meetings |-> c.meetings,
     has_duration_violation |-> c.has_duration_violation,
     section_has_batch |-> [key \in Sections(I) |-> section_has_batch(I, c, key)],
     faculty_slots |-> fslots,
     batch_slots |-> bslots,
     violations |-> Violations(I, c),
     total_structural_violations |-> total_structural_violations(Violations(I, c))]

SolutionsOf(I, c) ==
    {Solution(I, c, fs, bs) :
        fs \in Product([e \in FacultyDays(I) |-> FacultySlotChoices(I, c, e[1], e[2])]),
        bs \in Product([e \in BatchDays(I) |-> BatchSlotChoices(I, c, e[1], e[2])])}

\* every assignment that satisfies the constraints run_scheduler posts in every pass
ModelSolutions(I) ==
    UNION {UNION {SolutionsOf(I, c) :
              c \in {x \in {Candidate(I, sa, chs) :
                               chs \in Product([key \in Sections(I) |->
                                                   SectionChoices(I, sa, key)])} :
                        CrossConstraints(I, x)}} :
           sa \in SASet(I)}

\* run_scheduler raises before any solve
BuildError(I) ==
    IF TIME_GRANULARITY(I) \notin {10, 30} THEN "ValueError"
    ELSE IF \E sub \in SubjectSet(I) :
                sub.ideal_num_sections > 0 /\ Days(I) # {} /\ MissingMeetings(sub)
         THEN "ValueError"
    ELSE IF ~LinkedKeysExist(I) THEN "KeyError"
    ELSE "none"

\* the subject_id in the message of the ValueError raised for missing min/max meetings:
\* the first subject, in list order, whose meeting variables cannot be built
RaisedSubject(I) ==
    LET bad == {i \in DOMAIN I.subjects :
                    /\ I.subjects[i].ideal_num_sections > 0
                    /\ Days(I) # {}
                    /\ MissingMeetings(I.subjects[i])}
    IN IF TIME_GRANULARITY(I) \notin {10, 30} \/ bad = {} THEN None
       ELSE I.subjects[MinOf(bad)].subject_id

MinStructural(S) ==
    MinOf({sol.total_structural_violations : sol \in S})

\* ------------------------------------------------- inputs
DayLabels == <<"Mon", "Tue", "Wed", "Thu", "Fri", "Sat", "Sun">>

Config(lock_mode, max_class_minutes, min_gap_minutes) ==
    [SCHEDULING_DAYS |-> SubSeq(DayLabels, 1, NumDays),
     DAY_START_MINUTES |-> 480,
     DAY_END_MINUTES |-> 480 + DaySlots * 30,
     FRIDAY_END_MINUTES |-> 480 + DaySlots * 30,
     TIME_GRANULARITY_MINUTES |-> 30,
     MAX_CONTINUOUS_CLASS_MINUTES |-> max_class_minutes,
     MIN_GAP_MINUTES |-> min_gap_minutes,
     PASS2_LOCK_MODE |-> lock_mode,
     ConstraintPenalties |-> [NON_PREFERRED_SUBJECT_PER_SECTION |-> 50]]

Subject(id, req, nsec, link, lab, minm, maxm) ==
    [subject_id |-> id, required_weekly_minutes |-> req, ideal_num_sections |-> nsec,
     linked_subject_id |-> link, subject_type_is_lab |-> lab, room_type_id |-> 1,
     max_enrollment |-> None, min_meetings |-> minm, max_meetings |-> maxm]

Faculty(max_hours, min_hours, qualified, max_subjects) ==
    [max_hours |-> max_hours, min_hours |-> min_hours, qualified_subject_ids |-> qualified,
     preferred_subject_ids |-> qualified, max_subjects |-> max_subjects]

Room(capacity) == [capacity |-> capacity, room_type_id |-> 1]

Batch(population, subs, ext) ==
    [population |-> population, subjects |-> subs, external_meetings |-> List(ext)]

ExternalMeeting(d, st, en) == [day_index |-> d, start_minutes |-> st, end_minutes |-> en]

\* one subject in two sections, two batches, one faculty with a 2-hour cap, one room
TwoSections(lock_mode) ==
    [config |-> Config(lock_mode, 120, 30),
     subjects |-> List(<<Subject(1, 120, 2, None, FALSE, 2, 2)>>),
     faculty |-> List(<<Faculty(2, 0, {1}, None)>>),
     rooms |-> List(<<Room(2 * MaxPop)>>),
     batches |-> List(<<Batch(MaxPop, {1}, <<>>), Batch(MaxPop, {1}, <<>>)>>)]

\* a lecture (1) and its lab (2), one batch enrolled in both
LectureAndLab ==
    [config |-> Config("exact", 120, 30),
     subjects |-> List(<<Subject(1, 60, 1, None, FALSE, 1, 1),
                         Subject(2, 60, 1, 1, TRUE, 1, 1)>>),
     faculty |-> List(<<Faculty(4, 0, {1, 2}, None)>>),
     rooms |-> List(<<Room(MaxPop)>>),
     batches |-> List(<<Batch(MaxPop, {1, 2}, <<>>)>>)]

\* a batch with an external meeting of ext_minutes on the first day, 08:00 onwards;
\* at most 90 minutes of continuous class
WithExternal(ext_minutes) ==
    [config |-> Config("exact", 90, 30),
     subjects |-> List(<<Subject(1, 120, 1, None, FALSE, 1, 2)>>),
     faculty |-> List(<<Faculty(4, 0, {1}, None)>>),
     rooms |-> List(<<Room(MaxPop)>>),
     batches |-> List(<<Batch(MaxPop, {1}, <<ExternalMeeting(0, 480, 480 + ext_minutes)>>)>>)]

\* a 90-minute subject that may meet up to three times, and a subject without meetings;
\* the faculty is qualified for both and prefers the second only
Durations ==
    [config |-> Config("exact", 90, 30),
     subjects |-> List(<<Subject(1, 90, 1, None, FALSE, 1, 3),
                         Subject(2, 60, 1, None, FALSE, None, 0)>>),
     faculty |-> List(<<[Faculty(4, 0, {1, 2}, None) EXCEPT !.preferred_subject_ids = {2}]>>),
     rooms |-> List(<<Room(MaxPop)>>),
     batches |-> List(<<Batch(MaxPop, {1, 2}, <<>>)>>)]

\* a batch whose external meeting on the first day starts before the end of the day
\* and ends after it
ExternalPastDayEnd ==
    [WithExternal(30) EXCEPT
        !.batches = List(<<Batch(MaxPop, {1},
                        <<ExternalMeeting(0, 480 + DaySlots * 30 - 30,
                                             480 + DaySlots * 30 + 30)>>)>>)]

\* scenario E1: one subject of 180 minutes a week in 2 or 3 meetings, one qualified
\* faculty with max_hours = 6, one room of capacity 40, one batch of 30, 5 scheduling
\* days (the day is DaySlots slots long)
ScenarioE1 ==
    [config |-> [Config("exact", 90, 30) EXCEPT !.SCHEDULING_DAYS = SubSeq(DayLabels, 1, 5)],
     subjects |-> List(<<Subject(1, 180, 1, None, FALSE, 2, 3)>>),
     faculty |-> List(<<Faculty(6, 0, {1}, None)>>),
     rooms |-> List(<<Room(40)>>),
     batches |-> List(<<Batch(30, {1}, <<>>)>>)]

\* scenario E2: a lecture (1) of 120 minutes a week in 2 meetings of 60, its lab (2) of
\* 60 minutes in one meeting, one room and one faculty for both, one batch of 25
ScenarioE2 ==
    [config |-> Config("exact", 120, 30),
     subjects |-> List(<<Subject(1, 120, 1, None, FALSE, 2, 2),
                         Subject(2, 60, 1, 1, TRUE, 1, 1)>>),
     faculty |-> List(<<Faculty(6, 0, {1, 2}, None)>>),
     rooms |-> List(<<Room(25)>>),
     batches |-> List(<<Batch(25, {1, 2}, <<>>)>>)]

\* a configuration run_scheduler rejects
BadGranularity ==
    [TwoSections("exact") EXCEPT !.config.TIME_GRANULARITY_MINUTES = 15]

\* a lock mode Pass 2 rejects
BadLockMode ==
    [WithExternal(30) EXCEPT !.config.PASS2_LOCK_MODE = "full"]

\* one section whose only batch is more than three times the subject's max_enrollment
Overfilled ==
    [config |-> Config("exact", 120, 30),
     subjects |-> List(<<[Subject(1, 60, 1, None, FALSE, 1, 1) EXCEPT !.max_enrollment = 1]>>),
     faculty |-> List(<<Faculty(4, 0, {1}, None)>>),
     rooms |-> List(<<Room(2 * MaxPop)>>),
     batches |-> List(<<Batch(2 * MaxPop, {1}, <<>>)>>)]

\* a week of six scheduling days whose FRIDAY_END_MINUTES is one slot before
\* DAY_END_MINUTES; one 60-minute meeting a week
SixDays ==
    [config |-> [Config("exact", 120, 30) EXCEPT
                    !.SCHEDULING_DAYS = SubSeq(DayLabels, 1, 6),
                    !.FRIDAY_END_MINUTES = 480 + (DaySlots - 1) * 30],
     subjects |-> List(<<Subject(1, 60, 1, None, FALSE, 1, 1)>>),
     faculty |-> List(<<Faculty(4, 0, {1}, None)>>),
     rooms |-> List(<<Room(MaxPop)>>),
     batches |-> List(<<Batch(MaxPop, {1}, <<>>)>>)]

\* subject 2 is linked to subject 1 without being a lab; the only faculty may teach
\* one subject and is qualified for subjects 2 and 3; the batch enrolls in 2 and 3
LinkedNotLab ==
    [config |-> Config("exact", 120, 30),
     subjects |-> List(<<Subject(1, 60, 1, None, FALSE, 1, 1),
                         Subject(2, 60, 1, 1, FALSE, 1, 1),
                         Subject(3, 60, 1, None, FALSE, 1, 1)>>),
     faculty |-> List(<<Faculty(4, 0, {2, 3}, 1)>>),
     rooms |-> List(<<Room(MaxPop)>>),
     batches |-> List(<<Batch(MaxPop, {2, 3}, <<>>)>>)]

\* a minimum gap of two slots; one 60-minute meeting a week
MorningGap ==
    [config |-> Config("exact", 120, 60),
     subjects |-> List(<<Subject(1, 60, 1, None, FALSE, 1, 1)>>),
     faculty |-> List(<<Faculty(4, 0, {1}, None)>>),
     rooms |-> List(<<Room(MaxPop)>>),
     batches |-> List(<<Batch(MaxPop, {1}, <<>>)>>)]

\* a faculty qualified for the only subject that has no preferred subjects
NoPreference ==
    [config |-> Config("exact", 120, 30),
     subjects |-> List(<<Subject(1, 60, 1, None, FALSE, 1, 1)>>),
     faculty |-> List(<<[Faculty(4, 0, {1}, None) EXCEPT !.preferred_subject_ids = {}]>>),
     rooms |-> List(<<Room(MaxPop)>>),
     batches |-> List(<<Batch(MaxPop, {1}, <<>>)>>)]

\* a subject with required minutes that has neither min_meetings nor max_meetings
NoMeetingBounds ==
    [config |-> Config("exact", 120, 30),
     subjects |-> List(<<Subject(1, 60, 1, None, FALSE, None, None)>>),
     faculty |-> List(<<Faculty(4, 0, {1}, None)>>),
     rooms |-> List(<<Room(MaxPop)>>),
     batches |-> List(<<Batch(MaxPop, {1}, <<>>)>>)]

Instances ==
    {TwoSections("limit"), LectureAndLab, WithExternal(30),
     WithExternal(120), ExternalPastDayEnd, Durations, ScenarioE1, ScenarioE2,
     Overfilled, SixDays, LinkedNotLab, MorningGap, NoPreference,
     NoMeetingBounds, BadGranularity, BadLockMode}

\* the model of each input, enumerated once
Solved ==
    [I \in Instances |->
        IF BuildError(I) = "none" THEN {sol : sol \in ModelSolutions(I)} ELSE {}]

\* every assignment that satisfies the model of pass_mode (with the Pass-2 lock)
FeasibleSolutions(I, pass_mode, hints, structural_limit) ==
    {sol \in Solved[I] :
        /\ pass_mode \in {"pass2", "full"} => SoftConstraints(I, sol)
        /\ pass_mode = "pass2" =>
               StructuralLock(I, sol.violations, I.config.PASS2_LOCK_MODE,
                              hints, structural_limit)}

\* the arguments of run_two_pass_scheduler
Args ==
    [config |-> config, subjects |-> subjects, rooms |-> rooms, faculty |-> faculty,
     batches |-> batches]

\* ------------------------------------------------- run_two_pass_scheduler
OK == {"OPTIMAL", "FEASIBLE"}

\* the result bundle run_scheduler returns: the pass that built it and its two totals
Results(pass_mode, min_structural_violations, pass2_preference_penalty) ==
    [pass_mode |-> pass_mode,
     pass1_structural_violations |-> min_structural_violations,
     pass2_preference_penalty |-> pass2_preference_penalty]

\* total_penalty = model.NewIntVar(0, 10000000, ...): the ends of its domain stand for
\* the value the preference objective leaves in it
total_penalty_values == {0, 10000000}

\* PASS 1: run_scheduler(pass_mode = "pass1"); minimise total_structural_violations.
\* The solve ends OPTIMAL with a minimum, FEASIBLE with any solution (time limit),
\* INFEASIBLE when there is none, or UNKNOWN when the limit expires first.
Pass1 ==
    /\ pc = "start"
    /\ IF BuildError(Args) # "none"
       THEN /\ pc' = "raised"
            /\ status' = BuildError(Args)
            /\ UNCHANGED <<status_pass1, solver, results>>
       ELSE LET S == FeasibleSolutions(Args, "pass1", NoHints, 0)
                min == IF S = {} THEN 0 ELSE MinStructural(S)
            IN /\ pc' = "pass1_done"
               /\ \/ /\ S = {}
                     /\ status_pass1' = "INFEASIBLE"
                     /\ solver' = NoSolution
                     /\ results' = Results("pass1", None, None)
                  \/ /\ status_pass1' = "UNKNOWN"
                     /\ solver' = NoSolution
                     /\ results' = Results("pass1", None, None)
                  \/ \E sol \in S :
                        /\ solver' = sol
                        /\ status_pass1' \in
                              (IF sol.total_structural_violations = min
                               THEN OK ELSE {"FEASIBLE"})
                        /\ results' = Results("pass1", sol.total_structural_violations, None)
               /\ UNCHANGED status
    /\ UNCHANGED <<inputs, structural_minimum, pass1_hints, ts_in, filter_vars, exit_code>>

\* a failed Pass 1 that still goes through the Pass-2 run before returning
ReturnPass1FailureAfterPass2 ==
    /\ pc = "pass1_done"
    /\ status_pass1 \notin OK
    /\ pc' = "returned"
    /\ status' = status_pass1
    /\ results' = Results("pass2", None, None)
    /\ UNCHANGED <<inputs, status_pass1, solver, structural_minimum, pass1_hints, ts_in,
                   filter_vars, exit_code>>

\* if status_pass1 not in [OPTIMAL, FEASIBLE]: return status_pass1, solver_pass1, results_pass1
ReturnPass1Failure ==
    /\ pc = "pass1_done"
    /\ status_pass1 \notin OK
    /\ pc' = "returned"
    /\ status' = status_pass1
    /\ UNCHANGED <<inputs, status_pass1, solver, structural_minimum, pass1_hints, ts_in, filter_vars, results, exit_code>>

\* extract the structural slack values, then delete solver_pass1 and results_pass1
ExtractHints ==
    /\ pc = "pass1_done"
    /\ status_pass1 \in OK
    /\ structural_minimum' = results.pass1_structural_violations
    /\ pass1_hints' = solver.violations
    /\ solver' = NoSolution
    /\ results' = NoResults
    /\ pc' = "extracted"
    /\ UNCHANGED <<inputs, status_pass1, status, ts_in, filter_vars, exit_code>>

\* PASS 2: run_scheduler(pass_mode = "pass2", structural_limit, pass1_hints).
\* The preference objective is not modelled: any solution may be the one reported.
Pass2 ==
    /\ pc = "extracted"
    /\ IF config.PASS2_LOCK_MODE \notin {"exact", "limit"}
       THEN /\ pc' = "raised"
            /\ status' = "ValueError"
            /\ UNCHANGED <<solver, results>>
       ELSE LET S == FeasibleSolutions(Args, "pass2", pass1_hints, structural_minimum)
            IN /\ pc' = "returned"
               /\ \/ /\ S = {}
                     /\ status' = "INFEASIBLE"
                     /\ solver' = NoSolution
                     /\ results' = Results("pass2", structural_minimum, None)
                  \/ /\ status' = "UNKNOWN"
                     /\ solver' = NoSolution
                     /\ results' = Results("pass2", structural_minimum, None)
                  \/ \E sol \in S :
                        /\ solver' = sol
                        /\ status' \in OK
                        /\ \E p \in total_penalty_values :
                              results' = Results("pass2", structural_minimum, p)
    /\ UNCHANGED <<inputs, status_pass1, structural_minimum, pass1_hints, ts_in, filter_vars, exit_code>>

Init ==
    /\ \E I \in Instances :
          /\ config = I.config
          /\ subjects = I.subjects
          /\ rooms = I.rooms
          /\ faculty = I.faculty
          /\ batches = I.batches
    /\ pc = "start"
    /\ status_pass1 = "none"
    /\ solver = NoSolution
    /\ structural_minimum = None
    /\ pass1_hints = NoHints
    /\ status = "none"
    /\ ts_in = NoSolution
    /\ filtered_subjects = <<>>
    /\ removed_subjects = <<>>
    /\ filter_in = NoSolution
    /\ results = NoResults
    /\ exit_code = None

\* __main__ (single seed mode) after run_two_pass_scheduler: the outputs are saved when
\* status is OPTIMAL or FEASIBLE, a message is printed otherwise, and the program runs
\* off its end; an exception that nothing catches ends it with result code 1
MainEnd ==
    /\ pc \in {"returned", "raised"}
    /\ exit_code' = IF pc = "raised" THEN 1 ELSE 0
    /\ pc' = "exited"
    /\ UNCHANGED <<inputs, status_pass1, solver, structural_minimum, pass1_hints, status,
                   ts_in, filter_vars, results>>

Next ==
    \/ Pass1
    \/ ReturnPass1Failure
    \/ ExtractHints
    \/ Pass2
    \/ MainEnd

Spec == Init /\ [][Next]_vars

\* ------------------------------------------------------------------------
\* run_scheduler(pass_mode = "full"): Pass 1 and Pass 2 solved in one call on one model
\* ------------------------------------------------------------------------
InitFull ==
    /\ \E I \in Instances :
          /\ config = I.config
          /\ subjects = I.subjects
          /\ rooms = I.rooms
          /\ faculty = I.faculty
          /\ batches = I.batches
    /\ pc = "full_start"
    /\ status_pass1 = "none"
    /\ solver = NoSolution
    /\ structural_minimum = None
    /\ pass1_hints = NoHints
    /\ status = "none"
    /\ ts_in = NoSolution
    /\ filtered_subjects = <<>>
    /\ removed_subjects = <<>>
    /\ filter_in = NoSolution
    /\ results = NoResults
    /\ exit_code = None

\* PASS 1: model.Minimize(total_structural_violations) and solve; a failed solve
\* returns, otherwise min_structural_violations = solver.Value(total_structural_violations)
FullPass1 ==
    /\ pc = "full_start"
    /\ IF BuildError(Args) # "none"
       THEN /\ pc' = "raised"
            /\ status' = BuildError(Args)
            /\ UNCHANGED <<status_pass1, solver, results, structural_minimum>>
       ELSE LET S == FeasibleSolutions(Args, "full", NoHints, 0)
                min == IF S = {} THEN 0 ELSE MinStructural(S)
            IN \/ /\ S = {}
                  /\ status_pass1' = "INFEASIBLE"
                  /\ status' = "INFEASIBLE"
                  /\ solver' = NoSolution
                  /\ results' = Results("full", None, None)
                  /\ pc' = "full_returned"
                  /\ UNCHANGED structural_minimum
               \/ /\ status_pass1' = "UNKNOWN"
                  /\ status' = "UNKNOWN"
                  /\ solver' = NoSolution
                  /\ results' = Results("full", None, None)
                  /\ pc' = "full_returned"
                  /\ UNCHANGED structural_minimum
               \/ \E sol \in S :
                     /\ solver' = sol
                     /\ status_pass1' \in
                           (IF sol.total_structural_violations = min
                            THEN OK ELSE {"FEASIBLE"})
                     /\ structural_minimum' = sol.total_structural_violations
                     /\ pc' = "full_pass1_done"
                     /\ UNCHANGED <<status, results>>
    /\ UNCHANGED <<inputs, pass1_hints, ts_in, filter_vars, exit_code>>

\* PASS 2: the lock block is guarded by pass_mode == "pass2" and is skipped;
\* model.Minimize(total_penalty) replaces the objective and the same model is solved
FullPass2 ==
    /\ pc = "full_pass1_done"
    /\ LET S == FeasibleSolutions(Args, "full", NoHints, 0)
       IN \/ /\ status' = "UNKNOWN"
             /\ solver' = NoSolution
             /\ results' = Results("full", structural_minimum, None)
          \/ \E sol \in S :
                /\ solver' = sol
                /\ status' \in OK
                /\ \E p \in total_penalty_values :
                      results' = Results("full", structural_minimum, p)
    /\ pc' = "full_returned"
    /\ UNCHANGED <<inputs, status_pass1, structural_minimum, pass1_hints, ts_in,
                   filter_vars, exit_code>>

NextFull ==
    \/ FullPass1
    \/ FullPass2

SpecFull == InitFull /\ [][NextFull]_vars

\* ------------------------------------------------------------------------
\* timeslot_system.controllers.slot_oracle_controller: apply_slot_oracle_controller
\* ------------------------------------------------------------------------
slot_start_abs(I, day_idx, slot_idx) ==
    I.config.DAY_START_MINUTES + day_idx * MINUTES_IN_A_DAY + slot_idx * TIME_GRANULARITY(I)

\* Pre-compute which slots are covered by external meetings
external_covered_slots(I, b_idx, day_idx) ==
    LET ext == I.batches[b_idx].external_meetings
        day_offset == day_idx * MINUTES_IN_A_DAY
    IN {slot_idx \in SlotIdx(I, day_idx) :
           \E k \in DOMAIN ext :
               /\ ext[k].day_index = day_idx
               /\ ext[k].start_minutes + day_offset
                     < slot_start_abs(I, day_idx, slot_idx) + TIME_GRANULARITY(I)
               /\ ext[k].end_minutes + day_offset > slot_start_abs(I, day_idx, slot_idx)}

\* a weaker rule: a meeting covers the slots it overlaps, whoever it is active for
meeting_covers_slot_any(active_for, meeting, slot_start, slot_end) ==
    meeting.is_active /\ meeting.start < slot_end /\ meeting.end > slot_start

\* Coverage = active AND starts_before AND ends_after
meeting_covers_slot(active_for, meeting, slot_start, slot_end) ==
    LET starts_before_slot_ends == meeting.start < slot_end
        ends_after_slot_starts == meeting.end > slot_start
    IN active_for /\ starts_before_slot_ends /\ ends_after_slot_starts

\* OR AGGREGATION: time_slot = 0 without coverage booleans, else their maximum
OrAggregation(time_slot, covering_meetings) ==
    IF covering_meetings = {} THEN time_slot = FALSE
    ELSE time_slot = (TRUE \in covering_meetings)

\* the time_slot vectors of a faculty-day that satisfy the controller's constraints;
\* covering_meetings holds the coverage booleans collected for one slot
faculty_slot_grid(I, c, f_idx, day_idx) ==
    LET covering_meetings(slot_idx) ==
            {meeting_covers_slot(active_for_faculty(c, f_idx, mk), c.meetings[mk],
                                 slot_start_abs(I, day_idx, slot_idx),
                                 slot_start_abs(I, day_idx, slot_idx) + TIME_GRANULARITY(I)) :
                mk \in {x \in FacultyMeetingKeys(I, f_idx) : x[3] = day_idx}}
    IN {t \in [SlotIdx(I, day_idx) -> BOOLEAN] :
           \A slot_idx \in SlotIdx(I, day_idx) :
               OrAggregation(t[slot_idx], covering_meetings(slot_idx))}

\* external slots are fixed to 1 and skipped by coverage detection and aggregation
batch_slot_grid(I, c, b_idx, day_idx) ==
    LET covering_meetings(slot_idx) ==
            {meeting_covers_slot(active_for_batch(I, c, b_idx, mk), c.meetings[mk],
                                 slot_start_abs(I, day_idx, slot_idx),
                                 slot_start_abs(I, day_idx, slot_idx) + TIME_GRANULARITY(I)) :
                mk \in {x \in BatchMeetingKeys(I, b_idx) : x[3] = day_idx}}
    IN {t \in [SlotIdx(I, day_idx) -> BOOLEAN] :
           \A slot_idx \in SlotIdx(I, day_idx) :
               IF slot_idx \in external_covered_slots(I, b_idx, day_idx)
               THEN t[slot_idx] = TRUE
               ELSE OrAggregation(t[slot_idx], covering_meetings(slot_idx))}

\* the inputs the controller is applied to
OracleInstances ==
    {TwoSections("limit"), LectureAndLab, WithExternal(30), ExternalPastDayEnd, Durations}

InitOracle ==
    /\ \E I \in OracleInstances :
          /\ config = I.config
          /\ subjects = I.subjects
          /\ rooms = I.rooms
          /\ faculty = I.faculty
          /\ batches = I.batches
    /\ pc = "oracle_start"
    /\ status_pass1 = "none"
    /\ solver = NoSolution
    /\ structural_minimum = None
    /\ pass1_hints = NoHints
    /\ status = "none"
    /\ ts_in = NoSolution
    /\ filtered_subjects = <<>>
    /\ removed_subjects = <<>>
    /\ filter_in = NoSolution
    /\ results = NoResults
    /\ exit_code = None

\* the controller is applied to the model: the meeting variables take the values of
\* one schedule
ApplySlotOracle ==
    /\ pc = "oracle_start"
    /\ \E sol \in Solved[Args] : solver' = sol
    /\ pc' = "oracle_applied"
    /\ UNCHANGED <<inputs, status_pass1, structural_minimum, pass1_hints, status, ts_in,
                   filter_vars, results, exit_code>>

\* the solve assigns the time_slot variables of every grid
SolveSlotOracle ==
    /\ pc = "oracle_applied"
    /\ \E fg \in Product([e \in FacultyDays(Args) |->
                              faculty_slot_grid(Args, solver, e[1], e[2])]) :
       \E bg \in Product([e \in BatchDays(Args) |->
                              batch_slot_grid(Args, solver, e[1], e[2])]) :
          ts_in' = [faculty_ghost_grid |-> fg, batch_ghost_grid |-> bg]
    /\ pc' = "oracle_solved"
    /\ UNCHANGED <<inputs, status_pass1, solver, structural_minimum, pass1_hints, status,
                   filter_vars, results, exit_code>>

NextOracle ==
    \/ ApplySlotOracle
    \/ SolveSlotOracle

SpecOracle == InitOracle /\ [][NextOracle]_vars

\* ------------------------------------------------------------------------
\* timeslot_system: streak_tracker.py and timeslot_constraints.py, for the slots
\* of one entity-day.  The controller fixes time_slot; any value may arrive.
\* ------------------------------------------------------------------------
TsSlots(N) == 0..(N - 1)

\* add_streak_tracking: ActiveStreak[i], consecutive CLASS slots ending at i
TsActiveStreak(time_slot, active_streak) ==
    \A i \in DOMAIN time_slot :
        IF i = 0
        THEN /\ time_slot[i] => active_streak[i] = 1
             /\ ~time_slot[i] => active_streak[i] = 0
        ELSE /\ ~time_slot[i] => active_streak[i] = 0
             /\ time_slot[i] => active_streak[i] = active_streak[i - 1] + 1

\* add_streak_tracking: VacantStreak[i], consecutive GAP slots ending at i
TsVacantStreak(time_slot, vacant_streak) ==
    \A i \in DOMAIN time_slot :
        IF i = 0
        THEN /\ ~time_slot[i] => vacant_streak[i] = 1
             /\ time_slot[i] => vacant_streak[i] = 0
        ELSE /\ time_slot[i] => vacant_streak[i] = 0
             /\ ~time_slot[i] => vacant_streak[i] = vacant_streak[i - 1] + 1

\* every value of the variables of add_streak_tracking (IntVar 0..N per slot)
StreakTracking(N) ==
    UNION {{[time_slot |-> t, active_streak |-> a, vacant_streak |-> v] :
               a \in {x \in [TsSlots(N) -> 0..N] : TsActiveStreak(t, x)},
               v \in {x \in [TsSlots(N) -> 0..N] : TsVacantStreak(t, x)}} :
           t \in [TsSlots(N) -> BOOLEAN]}

\* the streak variables of each grid length, enumerated once
StreakData == [N \in 0..(TsLen + 1) |-> {sd : sd \in StreakTracking(N)}]

TsMaxClassSlots(cfg) == cfg.MAX_CONTINUOUS_CLASS_MINUTES \div cfg.TIME_GRANULARITY_MINUTES

TsMinGapSlots(cfg) == cfg.MIN_GAP_MINUTES \div cfg.TIME_GRANULARITY_MINUTES

\* Check if we've encountered a class before (VacantStreak[i] < i)
encountered_class_before(vacant_streak, i) == vacant_streak[i] < i

\* gap_ends_here = (time_slot == 0) AND (next_time_slot == 1) AND (encountered_class_before)
TsGapEndsHere(time_slot, vacant_streak, i) ==
    ~time_slot[i] /\ time_slot[i + 1] /\ encountered_class_before(vacant_streak, i)

\* add_hard_constraints: Max Continuous Class and Min Gap
HardConstraints(cfg, sd) ==
    \A i \in DOMAIN sd.time_slot :
        /\ sd.active_streak[i] <= TsMaxClassSlots(cfg)
        /\ i < len(sd.time_slot) - 1 =>
              (TsGapEndsHere(sd.time_slot, sd.vacant_streak, i) =>
                  sd.vacant_streak[i] >= TsMinGapSlots(cfg))

\* the grid of a day of n slots
TsConfig(n, max_class_minutes, min_gap_minutes) ==
    [Config("exact", max_class_minutes, min_gap_minutes)
        EXCEPT !.DAY_END_MINUTES = 480 + n * 30, !.FRIDAY_END_MINUTES = 480 + n * 30]

TsN == (config.DAY_END_MINUTES - config.DAY_START_MINUTES) \div config.TIME_GRANULARITY_MINUTES

InitTS ==
    /\ \E n \in 1..TsLen : \E c \in 1..TsLen : \E g \in 1..2 :
          config = TsConfig(n, c * 30, g * 30)
    /\ subjects = <<>> /\ rooms = <<>> /\ faculty = <<>> /\ batches = <<>>
    /\ pc = "ts_grid"
    /\ status_pass1 = "none"
    /\ solver = NoSolution
    /\ structural_minimum = None
    /\ pass1_hints = NoHints
    /\ status = "none"
    /\ ts_in = NoSolution
    /\ filtered_subjects = <<>>
    /\ removed_subjects = <<>>
    /\ filter_in = NoSolution
    /\ results = NoResults
    /\ exit_code = None

add_streak_tracking ==
    /\ pc = "ts_grid"
    /\ pc' = "ts_streak"
    /\ UNCHANGED <<inputs, status_pass1, solver, structural_minimum, pass1_hints, status, ts_in, filter_vars, results, exit_code>>

add_hard_constraints ==
    /\ pc = "ts_streak"
    /\ pc' = "ts_hard"
    /\ UNCHANGED <<inputs, status_pass1, solver, structural_minimum, pass1_hints, status, ts_in, filter_vars, results, exit_code>>

\* a solve of the constraints both functions posted
SolveTimeslots ==
    /\ pc = "ts_hard"
    /\ \E sd \in StreakData[TsN] :
          /\ HardConstraints(config, sd)
          /\ ts_in' = sd
    /\ pc' = "ts_solved"
    /\ UNCHANGED <<inputs, status_pass1, solver, structural_minimum, pass1_hints, status,
                   filter_vars, results, exit_code>>

NextTS ==
    \/ add_streak_tracking
    \/ add_hard_constraints
    \/ SolveTimeslots

SpecTS == InitTS /\ [][NextTS]_vars

\* ------------------------------------------------------------------------
\* filter_infeasible_subjects (main.py): the loop over the subjects, then the clean-up
\* of the references held by batches and faculty
\* ------------------------------------------------------------------------
\* Build set of available room types
available_room_types(rms) ==
    {rms[r].room_type_id : r \in {x \in DOMAIN rms : Truthy(rms[x].room_type_id)}}

\* Check 0: Does the subject have any meetings scheduled?
has_meetings(subject) ==
    \/ Truthy(subject.max_meetings) /\ subject.max_meetings > 0
    \/ Truthy(subject.required_weekly_minutes) /\ subject.required_weekly_minutes > 0

\* a weaker rule: only the qualified subject ids count
has_qualified_faculty_only(subject, fac) ==
    \E f \in DOMAIN fac : subject.subject_id \in fac[f].qualified_subject_ids

\* Check 1: Is there at least one qualified faculty?
has_qualified_faculty(subject, fac) ==
    \E f \in DOMAIN fac :
        \/ subject.subject_id \in fac[f].preferred_subject_ids
        \/ subject.subject_id \in fac[f].qualified_subject_ids

\* Check 2: Is there at least one batch enrolled?
has_enrolled_batch(subject, bts) ==
    \E b \in DOMAIN bts : subject.subject_id \in bts[b].subjects

\* Check 3: Does a compatible room type exist?
has_compatible_room(subject, rms) ==
    IF Truthy(subject.room_type_id)
    THEN subject.room_type_id \in available_room_types(rms)
    ELSE TRUE

\* Remove if ANY condition fails (OR logic)
IsRemoved(subject, rms, fac, bts) ==
    \/ ~has_meetings(subject)
    \/ ~has_qualified_faculty(subject, fac)
    \/ ~has_enrolled_batch(subject, bts)
    \/ ~has_compatible_room(subject, rms)

removed_subject_ids == {removed_subjects[k].subject_id : k \in 1..Len(removed_subjects)}

\* the subjects the filter is run on: ids 1 and 2, where 2 may be linked to 1
FilterSubject(id, req, maxm, rt, link) ==
    [Subject(id, req, 1, link, link # None, IF maxm = 0 THEN None ELSE 1, maxm)
        EXCEPT !.room_type_id = rt]

InitFilter ==
    /\ \E req \in {0, 120}, maxm \in {None, 0, 2}, rt \in {None, 1, 2},
          req2 \in {0, 120}, maxm2 \in {0, 2}, link2 \in {None, 1} :
          subjects = List(<<FilterSubject(1, req, maxm, rt, None),
                            FilterSubject(2, req2, maxm2, 1, link2)>>)
    /\ \E q \in SUBSET {1, 2}, p \in SUBSET {1, 2} :
          faculty = List(<<[Faculty(4, 0, q, None) EXCEPT !.preferred_subject_ids = p]>>)
    /\ \E subs \in SUBSET {1, 2} : batches = List(<<Batch(MaxPop, subs, <<>>)>>)
    /\ \E rt \in {None, 1} : rooms = List(<<[Room(MaxPop) EXCEPT !.room_type_id = rt]>>)
    /\ config = Config("exact", 120, 30)
    /\ pc = "filter_loop"
    /\ filter_in = [faculty |-> faculty, batches |-> batches]
    /\ filtered_subjects = <<>>
    /\ removed_subjects = <<>>
    /\ status_pass1 = "none"
    /\ solver = NoSolution
    /\ structural_minimum = None
    /\ pass1_hints = NoHints
    /\ status = "none"
    /\ ts_in = NoSolution
    /\ results = NoResults
    /\ exit_code = None

\* one iteration of "for subject in subjects"
FilterLoop ==
    /\ pc = "filter_loop"
    /\ LET i == Len(filtered_subjects) + Len(removed_subjects)
       IN /\ i < len(subjects)
          /\ IF IsRemoved(subjects[i], rooms, faculty, batches)
             THEN /\ removed_subjects' = Append(removed_subjects, subjects[i])
                  /\ UNCHANGED filtered_subjects
             ELSE /\ filtered_subjects' = Append(filtered_subjects, subjects[i])
                  /\ UNCHANGED removed_subjects
    /\ UNCHANGED <<inputs, pc, status_pass1, solver, structural_minimum, pass1_hints, status,
                   ts_in, filter_in, results, exit_code>>

\* Clean up references to removed subjects, and return
FilterCleanUp ==
    /\ pc = "filter_loop"
    /\ Len(filtered_subjects) + Len(removed_subjects) = len(subjects)
    /\ batches' = [b \in DOMAIN batches |->
                     [batches[b] EXCEPT !.subjects = @ \ removed_subject_ids]]
    /\ faculty' = [f \in DOMAIN faculty |->
                     [faculty[f] EXCEPT
                         !.preferred_subject_ids = @ \ removed_subject_ids,
                         !.qualified_subject_ids = @ \ removed_subject_ids]]
    /\ pc' = "filter_returned"
    /\ UNCHANGED <<config, subjects, rooms, status_pass1, solver, structural_minimum,
                   pass1_hints, status, ts_in, filter_vars, results, exit_code>>

NextFilter ==
    \/ FilterLoop
    \/ FilterCleanUp

SpecFilter == InitFilter /\ [][NextFilter]_vars

\* ------------------------------------------------------------------------
\* Properties of the solutions
\* ------------------------------------------------------------------------

\* C1: in every feasible solution, two active meetings whose sections share a real
\* faculty, a real room, or a batch that both fully enroll, do not overlap in time,
\* and no active meeting of a section that fully enrolls a batch overlaps an
\* external meeting of that batch.
C1_NoOverlap ==
    solver # NoSolution =>
        LET m == solver.meetings
            act == {mk \in DOMAIN m : m[mk].is_active}
            fac(mk) == solver.assigned_faculty[<<mk[1], mk[2]>>]
            room(mk) == solver.assigned_room[<<mk[1], mk[2]>>]
            full(b_idx, mk) ==
                /\ <<mk[1], mk[2], b_idx>> \in DOMAIN solver.section_assignments
                /\ solver.section_assignments[<<mk[1], mk[2], b_idx>>]
                       = batches[b_idx].population
            disjoint(s1, e1, s2, e2) == e1 <= s2 \/ e2 <= s1
        IN /\ \A x \in act : \A y \in act \ {x} :
                 (\/ fac(x) = fac(y) /\ fac(x) # len(faculty)
                  \/ room(x) = room(y) /\ room(x) # len(rooms)
                  \/ \E b_idx \in DOMAIN batches : full(b_idx, x) /\ full(b_idx, y))
                 => disjoint(m[x].start, m[x].end, m[y].start, m[y].end)
           /\ \A b_idx \in DOMAIN batches :
                 \A k \in DOMAIN batches[b_idx].external_meetings :
                    \A x \in act :
                       LET ext == batches[b_idx].external_meetings[k]
                           off == ext.day_index * 1440
                       IN full(b_idx, x) =>
                             disjoint(m[x].start, m[x].end,
                                      ext.start_minutes + off, ext.end_minutes + off)

\* two sections of one faculty and one room meet on the same day
C1_Witness ==
    /\ solver # NoSolution
    /\ \E x \in DOMAIN solver.meetings : \E y \in DOMAIN solver.meetings :
          /\ x # y /\ x[3] = y[3]
          /\ solver.meetings[x].is_active /\ solver.meetings[y].is_active
          /\ solver.assigned_faculty[<<x[1], x[2]>>] = solver.assigned_faculty[<<y[1], y[2]>>]
          /\ solver.assigned_room[<<x[1], x[2]>>] = solver.assigned_room[<<y[1], y[2]>>]

\* C2: in every feasible solution, for every batch and every subject it enrolls,
\* exactly one section holds the whole population of the batch and every other
\* section of the subject holds 0 of it.
C2_BatchNotSplit ==
    solver # NoSolution =>
        \A b_idx \in DOMAIN batches : \A sub \in Range(subjects) :
            sub.subject_id \in batches[b_idx].subjects =>
                LET secs == 0..(sub.ideal_num_sections - 1)
                    pop(s) == solver.section_assignments[<<sub.subject_id, s, b_idx>>]
                IN \E s \in secs :
                      /\ pop(s) = batches[b_idx].population
                      /\ \A t \in secs \ {s} : pop(t) = 0

\* two batches of more than one student are placed in different sections
C2_Witness ==
    /\ solver # NoSolution
    /\ <<1, 0, 0>> \in DOMAIN solver.section_assignments
    /\ <<1, 1, 1>> \in DOMAIN solver.section_assignments
    /\ solver.section_assignments[<<1, 0, 0>>] = batches[0].population
    /\ solver.section_assignments[<<1, 1, 1>>] = batches[1].population
    /\ batches[0].population > 1

\* C3: in every feasible solution, a section that has a batch and whose duration
\* violation indicator is 0 meets for exactly required_weekly_minutes in total.
C3_DurationSum ==
    solver # NoSolution =>
        \A key \in DOMAIN solver.section_has_batch :
            (solver.section_has_batch[key] /\ solver.violations.duration_violations[key] = 0) =>
                LET mks == {mk \in DOMAIN solver.meetings : <<mk[1], mk[2]>> = key}
                IN SumSet(mks, [mk \in mks |->
                        solver.meetings[mk].duration * B2I(solver.meetings[mk].is_active)])
                   = (CHOOSE sub \in Range(subjects) : sub.subject_id = key[1]).required_weekly_minutes

\* a section with a batch meets twice without a duration violation
C3_Witness ==
    /\ solver # NoSolution
    /\ \E key \in DOMAIN solver.section_has_batch :
          /\ solver.section_has_batch[key]
          /\ solver.violations.duration_violations[key] = 0
          /\ Cardinality({mk \in DOMAIN solver.meetings :
                            <<mk[1], mk[2]>> = key /\ solver.meetings[mk].is_active}) = 2

\* C4: for a subject with max_meetings > 0 and min_meetings set, every active meeting
\* lasts floor(required_weekly_minutes / n) minutes for some n in
\* min_meetings..max_meetings with a quotient of at least 60; a subject with
\* max_meetings = 0 has duration 0 only and no active meeting.  The duration loop of
\* run_scheduler yields exactly that set.
C4_DurationSet ==
    LET D(sub) == {sub.required_weekly_minutes \div n :
                      n \in {k \in sub.min_meetings..sub.max_meetings :
                                sub.required_weekly_minutes \div k >= 60}}
    IN /\ solver # NoSolution =>
             \A mk \in DOMAIN solver.meetings :
                LET sub == CHOOSE x \in Range(subjects) : x.subject_id = mk[1]
                IN /\ (sub.max_meetings > 0 /\ sub.min_meetings # None) =>
                         (solver.meetings[mk].is_active =>
                             solver.meetings[mk].duration \in D(sub))
                   /\ sub.max_meetings = 0 =>
                         /\ solver.meetings[mk].duration = 0
                         /\ ~solver.meetings[mk].is_active
       /\ pc = "start" =>
             \A req \in 0..MaxRequired : \A maxm \in 1..MaxMeetings : \A minm \in 1..maxm :
                LET sub == Subject(1, req, 1, None, FALSE, minm, maxm)
                IN allowed_duration_values(sub) = D(sub)

\* a subject that may meet one to three times meets once, next to a subject with
\* max_meetings = 0
C4_Witness ==
    /\ solver # NoSolution
    /\ \E sub \in Range(subjects) : sub.max_meetings = 0
    /\ \E mk \in DOMAIN solver.meetings :
          /\ solver.meetings[mk].is_active
          /\ (CHOOSE x \in Range(subjects) : x.subject_id = mk[1]).max_meetings = 3

\* C5: when Pass 2 ends OPTIMAL or FEASIBLE, the sum of the structural booleans of
\* its solution is at most the Pass-1 objective value, and in "exact" mode every
\* structural boolean has its Pass-1 value.
C5_Pass2KeepsStructure ==
    (pc = "returned" /\ status_pass1 \in OK /\ status \in OK) =>
        /\ total_structural_violations(solver.violations) <= structural_minimum
        /\ config.PASS2_LOCK_MODE = "exact" => solver.violations = pass1_hints

\* Pass 2 ends with a solution in "exact" mode after a Pass 1 with a day gap
C5_Witness ==
    /\ pc = "returned" /\ status_pass1 \in OK /\ status \in OK
    /\ config.PASS2_LOCK_MODE = "exact"
    /\ \E f_idx \in DOMAIN pass1_hints.faculty_day_gaps :
          \E d \in DOMAIN pass1_hints.faculty_day_gaps[f_idx] :
             pass1_hints.faculty_day_gaps[f_idx][d] = 1

\* C6: the Pass-1 model of every input has a feasible solution, whatever the external
\* meetings of the batches: Pass 1 never ends INFEASIBLE.
C6_Pass1NeverInfeasible == status_pass1 # "INFEASIBLE"

\* C7: for a lab subject and its linked lecture, on every day and for every section
\* index, lab and lecture are both active or both inactive, an active lab starts
\* when the lecture ends, both sections have the same faculty and room, and every
\* batch that enrolls the lab has the same population in both sections.
C7_LectureLab ==
    solver # NoSolution =>
        \A sub \in Range(subjects) :
            (sub.linked_subject_id # None /\ sub.linked_subject_id # 0
             /\ sub.subject_type_is_lab) =>
                \A s \in 0..(sub.ideal_num_sections - 1) :
                    LET lab == <<sub.subject_id, s>>
                        lec == <<sub.linked_subject_id, s>>
                        m == solver.meetings
                    IN /\ \A d \in 0..(Len(config.SCHEDULING_DAYS) - 1) :
                             /\ m[<<lab[1], s, d>>].is_active = m[<<lec[1], s, d>>].is_active
                             /\ m[<<lab[1], s, d>>].is_active =>
                                   m[<<lab[1], s, d>>].start = m[<<lec[1], s, d>>].end
                       /\ solver.assigned_faculty[lab] = solver.assigned_faculty[lec]
                       /\ solver.assigned_room[lab] = solver.assigned_room[lec]
                       /\ \A b_idx \in DOMAIN batches :
                             sub.subject_id \in batches[b_idx].subjects =>
                                solver.section_assignments[<<lab[1], s, b_idx>>]
                                   = solver.section_assignments[<<lec[1], s, b_idx>>]

\* a lab meets right after its lecture
C7_Witness ==
    /\ solver # NoSolution
    /\ \E sub \in Range(subjects) :
          /\ sub.linked_subject_id # None /\ sub.subject_type_is_lab
          /\ \E d \in 0..(Len(config.SCHEDULING_DAYS) - 1) :
                /\ solver.meetings[<<sub.subject_id, 0, d>>].is_active
                /\ solver.meetings[<<sub.linked_subject_id, 0, d>>].is_active

\* C8: in every feasible solution, on every faculty-day and batch-day, active_streak[i]
\* is the number of consecutive occupied slots that end at slot i, and it is at most
\* MAX_CLASS_SLOTS = floor(MAX_CONTINUOUS_CLASS_HOURS * 60 / G).
C8_ActiveStreak ==
    solver # NoSolution =>
        LET run(ts, i) == CHOOSE k \in 0..(i + 1) :
                              /\ \A j \in (i - k + 1)..i : ts[j]
                              /\ k = i + 1 \/ ~ts[i - k]
            cap == config.MAX_CONTINUOUS_CLASS_MINUTES \div config.TIME_GRANULARITY_MINUTES
            ok(sl) == \A i \in DOMAIN sl.time_slot :
                          /\ sl.active_streak[i] = run(sl.time_slot, i)
                          /\ sl.active_streak[i] <= cap
        IN /\ \A e \in DOMAIN solver.faculty_slots : ok(solver.faculty_slots[e])
           /\ \A e \in DOMAIN solver.batch_slots : ok(solver.batch_slots[e])

\* a batch is occupied for exactly MAX_CLASS_SLOTS slots in a row, fewer than the day has
C8_Witness ==
    /\ solver # NoSolution
    /\ \E e \in DOMAIN solver.batch_slots :
          \E i \in DOMAIN solver.batch_slots[e].active_streak :
             /\ solver.batch_slots[e].active_streak[i]
                   = config.MAX_CONTINUOUS_CLASS_MINUTES \div config.TIME_GRANULARITY_MINUTES
             /\ solver.batch_slots[e].active_streak[i]
                   < Cardinality(DOMAIN solver.batch_slots[e].time_slot)

\* C9: under the constraints of add_streak_tracking and add_hard_constraints, if slot
\* i < N-1 is vacant, slot i+1 is occupied and some slot before i is occupied, then
\* vacant_streak[i] >= MIN_GAP_SLOTS.
C9_MinGapAfterClass ==
    pc = "ts_solved" =>
        \A i \in DOMAIN ts_in.time_slot :
            (/\ i < TsN - 1
             /\ ~ts_in.time_slot[i]
             /\ ts_in.time_slot[i + 1]
             /\ \E j \in 0..(i - 1) : ts_in.time_slot[j]) =>
                ts_in.vacant_streak[i] >= config.MIN_GAP_MINUTES \div config.TIME_GRANULARITY_MINUTES

\* C10: in every feasible solution of Pass 1 and of Pass 2, a faculty with
\* max_hours > 0 teaches at most max_hours * 60 active minutes in total.
C10_FacultyMaxHours ==
    solver # NoSolution =>
        \A f_idx \in DOMAIN faculty :
            faculty[f_idx].max_hours > 0 =>
                LET mks == {mk \in DOMAIN solver.meetings :
                               /\ solver.assigned_faculty[<<mk[1], mk[2]>>] = f_idx
                               /\ solver.meetings[mk].is_active}
                IN SumSet(mks, [mk \in mks |-> solver.meetings[mk].duration])
                      <= faculty[f_idx].max_hours * 60

\* in Pass 2 a faculty teaches exactly max_hours, with a second section cut short
C10_Witness ==
    /\ pc = "returned" /\ solver # NoSolution
    /\ \E f_idx \in DOMAIN faculty :
          LET mks == {mk \in DOMAIN solver.meetings :
                         /\ solver.assigned_faculty[<<mk[1], mk[2]>>] = f_idx
                         /\ solver.meetings[mk].is_active}
          IN /\ faculty[f_idx].max_hours > 0
             /\ SumSet(mks, [mk \in mks |-> solver.meetings[mk].duration])
                   = faculty[f_idx].max_hours * 60
             /\ \E key \in DOMAIN solver.has_duration_violation :
                   solver.violations.duration_violations[key] = 1

\* C11: in every feasible solution and for every section, assigned_room is the dummy
\* room index exactly when section_has_batch is 0 or the gated is_dummy_room
\* indicator is 1, and assigned_faculty is the dummy faculty index exactly when
\* section_has_batch is 0 or the gated is_dummy_faculty indicator is 1.
C11_DummyIffUnusedOrFlagged ==
    solver # NoSolution =>
        \A key \in DOMAIN solver.section_has_batch :
            /\ (solver.assigned_room[key] = len(rooms))
                  <=> (~solver.section_has_batch[key]
                       \/ solver.violations.is_dummy_room[key] = 1)
            /\ (solver.assigned_faculty[key] = len(faculty))
                  <=> (~solver.section_has_batch[key]
                       \/ solver.violations.is_dummy_faculty[key] = 1)

\* one section is unused, and another has a batch but the dummy faculty and room
C11_Witness ==
    /\ solver # NoSolution
    /\ \E key \in DOMAIN solver.section_has_batch : ~solver.section_has_batch[key]
    /\ \E key \in DOMAIN solver.section_has_batch :
          /\ solver.section_has_batch[key]
          /\ solver.violations.is_dummy_faculty[key] = 1
          /\ solver.violations.is_dummy_room[key] = 1

\* C12: in every feasible solution, for every faculty-day and batch-day and every slot
\* i, time_slot[i] = 1 exactly when slot i is covered by an active class meeting of
\* the entity or, for a batch, by one of its external meetings (start < end): no
\* slot is marked occupied without a covering meeting.
C12_TimeSlotIffCovered ==
    solver # NoSolution =>
        LET G == config.TIME_GRANULARITY_MINUTES
            slot_start(d, i) == config.DAY_START_MINUTES + d * 1440 + i * G
            covers(st, en, d, i) == st < slot_start(d, i) + G /\ slot_start(d, i) < en
            m == solver.meetings
            class_of_faculty(f_idx, d, i) ==
                \E mk \in DOMAIN m :
                    /\ mk[3] = d /\ m[mk].is_active
                    /\ solver.assigned_faculty[<<mk[1], mk[2]>>] = f_idx
                    /\ covers(m[mk].start, m[mk].end, d, i)
            class_of_batch(b_idx, d, i) ==
                \E mk \in DOMAIN m :
                    /\ mk[3] = d /\ m[mk].is_active
                    /\ <<mk[1], mk[2], b_idx>> \in DOMAIN solver.section_assignments
                    /\ solver.section_assignments[<<mk[1], mk[2], b_idx>>]
                          = batches[b_idx].population
                    /\ covers(m[mk].start, m[mk].end, d, i)
            external_of_batch(b_idx, d, i) ==
                \E k \in DOMAIN batches[b_idx].external_meetings :
                    LET ext == batches[b_idx].external_meetings[k]
                    IN /\ ext.day_index = d /\ ext.start_minutes < ext.end_minutes
                       /\ covers(ext.start_minutes + d * 1440, ext.end_minutes + d * 1440, d, i)
        IN /\ \A e \in DOMAIN solver.faculty_slots :
                 \A i \in DOMAIN solver.faculty_slots[e].time_slot :
                    solver.faculty_slots[e].time_slot[i] <=> class_of_faculty(e[1], e[2], i)
           /\ \A e \in DOMAIN solver.batch_slots :
                 \A i \in DOMAIN solver.batch_slots[e].time_slot :
                    solver.batch_slots[e].time_slot[i]
                       <=> (class_of_batch(e[1], e[2], i) \/ external_of_batch(e[1], e[2], i))

\* C13: in scenario E1 the minimum of the Pass-1 structural objective is 0, and the
\* schedule returned after Pass 2 has 180 active minutes in total, on exactly one
\* section.
C13_ScenarioE1 ==
    Args = ScenarioE1 =>
        /\ (pc = "pass1_done" /\ status_pass1 = "OPTIMAL") =>
               solver.total_structural_violations = 0
        /\ (pc = "returned" /\ status_pass1 = "OPTIMAL" /\ status \in OK) =>
               LET act == {mk \in DOMAIN solver.meetings : solver.meetings[mk].is_active}
               IN /\ SumSet(act, [mk \in act |-> solver.meetings[mk].duration]) = 180
                  /\ Cardinality({<<mk[1], mk[2]>> : mk \in act}) = 1

\* C14: in scenario E2 the model admits the schedule of the scenario: the lecture
\* active on two days with 60-minute meetings, the lab active on one day with a
\* 60-minute meeting that starts when the lecture of that day ends, both with the same
\* real faculty and the same real room.
C14_ScenarioE2 ==
    Args = ScenarioE2 =>
        \E sol \in Solved[ScenarioE2] :
            LET lec == {mk \in DOMAIN sol.meetings : mk[1] = 1 /\ sol.meetings[mk].is_active}
                lab == {mk \in DOMAIN sol.meetings : mk[1] = 2 /\ sol.meetings[mk].is_active}
            IN /\ Cardinality(lec) = 2 /\ Cardinality(lab) = 1
               /\ \A mk \in lec \cup lab : sol.meetings[mk].duration = 60
               /\ \A mk \in lab :
                     /\ <<1, mk[2], mk[3]>> \in lec
                     /\ sol.meetings[mk].start = sol.meetings[<<1, mk[2], mk[3]>>].end
               /\ sol.assigned_faculty[<<1, 0>>] = sol.assigned_faculty[<<2, 0>>]
               /\ sol.assigned_faculty[<<1, 0>>] # len(faculty)
               /\ sol.assigned_room[<<1, 0>>] = sol.assigned_room[<<2, 0>>]
               /\ sol.assigned_room[<<1, 0>>] # len(rooms)

C17_Pass2Feasible ==
    (pc = "extracted" /\ config.PASS2_LOCK_MODE \in {"exact", "limit"}) =>
        FeasibleSolutions(Args, "pass2", pass1_hints, structural_minimum) # {}

\* C18 as stated: every active meeting on day d has end = start + duration, starts at
\* or after the start of the day and ends at or before the end of the day, which is
\* FRIDAY_END_MINUTES on the last-indexed day (d = D - 1) and DAY_END_MINUTES on the
\* others, for every number D of scheduling days.
C18_DayWindowLastDay ==
    solver # NoSolution =>
        \A mk \in DOMAIN solver.meetings :
            LET m == solver.meetings[mk]
                d == mk[3]
                D == Len(config.SCHEDULING_DAYS)
                day_end == IF d = D - 1 THEN config.FRIDAY_END_MINUTES
                           ELSE config.DAY_END_MINUTES
            IN m.is_active =>
                  /\ m.end = m.start + m.duration
                  /\ m.start >= config.DAY_START_MINUTES + d * 1440
                  /\ m.end <= day_end + d * 1440

\* C18 amended: the same, where the end of the day is FRIDAY_END_MINUTES on the day of
\* index 4 and DAY_END_MINUTES on every other day, whatever the number of days.
C18_DayWindowIndex4 ==
    solver # NoSolution =>
        \A mk \in DOMAIN solver.meetings :
            LET m == solver.meetings[mk]
                d == mk[3]
                day_end == IF d = 4 THEN config.FRIDAY_END_MINUTES
                           ELSE config.DAY_END_MINUTES
            IN m.is_active =>
                  /\ m.end = m.start + m.duration
                  /\ m.start >= config.DAY_START_MINUTES + d * 1440
                  /\ m.end <= day_end + d * 1440

\* in a six-day week with an earlier Friday end, a meeting on the day of index 4 ends
\* exactly at FRIDAY_END_MINUTES
C18_Witness ==
    /\ solver # NoSolution
    /\ Len(config.SCHEDULING_DAYS) = 6
    /\ config.FRIDAY_END_MINUTES < config.DAY_END_MINUTES
    /\ \E mk \in DOMAIN solver.meetings :
          /\ mk[3] = 4
          /\ solver.meetings[mk].is_active
          /\ solver.meetings[mk].end = config.FRIDAY_END_MINUTES + 4 * 1440

\* C19: no section has active meetings on two adjacent days d and d + 1.
C19_NoAdjacentDays ==
    solver # NoSolution =>
        \A mk \in DOMAIN solver.meetings :
            LET next == <<mk[1], mk[2], mk[3] + 1>>
            IN next \in DOMAIN solver.meetings =>
                  ~(solver.meetings[mk].is_active /\ solver.meetings[next].is_active)

\* a section meets on two days, and they are two days apart
C19_Witness ==
    /\ solver # NoSolution
    /\ \E mk \in DOMAIN solver.meetings :
          LET other == <<mk[1], mk[2], mk[3] + 2>>
          IN /\ other \in DOMAIN solver.meetings
             /\ solver.meetings[mk].is_active
             /\ solver.meetings[other].is_active

\* C20: in every feasible solution, a faculty whose max_subjects is set (> 0) teaches
\* at most max_subjects distinct canonical subjects, where a subject and its linked
\* subject share one canonical id and a canonical subject counts as taught when the
\* faculty is assigned at least one section of either member of the pair.
C20_MaxCanonicalSubjects ==
    solver # NoSolution =>
        LET ids(sub) == {sub.subject_id}
                        \cup (IF sub.linked_subject_id # None /\ sub.linked_subject_id # 0
                               THEN {sub.linked_subject_id} ELSE {})
                        \cup {x.subject_id : x \in {y \in Range(subjects) :
                                                  y.linked_subject_id = sub.subject_id}}
            canon(sub) == CHOOSE i \in ids(sub) : \A j \in ids(sub) : i <= j
            taught(f_idx) ==
                {canon(sub) : sub \in {x \in Range(subjects) :
                    \E s \in 0..(x.ideal_num_sections - 1) :
                        solver.assigned_faculty[<<x.subject_id, s>>] = f_idx}}
        IN \A f_idx \in DOMAIN faculty :
              (faculty[f_idx].max_subjects # None /\ faculty[f_idx].max_subjects > 0) =>
                  Cardinality(taught(f_idx)) <= faculty[f_idx].max_subjects

C22_FullModeLocksStructure ==
    (pc = "full_returned" /\ status \in {"OPTIMAL", "FEASIBLE"}) =>
        solver.total_structural_violations <= results.pass1_structural_violations

\* C23: the hard minimum-gap rule of run_scheduler applies only to a vacancy that
\* follows an earlier class of the day: a faculty-day or batch-day whose first occupied
\* slot is slot k with 0 < k < MIN_GAP_SLOTS is not excluded by it.  With a minimum gap
\* of two slots, some schedule has an entity-day whose first class starts at slot 1.
C23_MorningVacancyAllowed ==
    Args = MorningGap =>
        \E sol \in Solved[MorningGap] :
            \/ \E e \in DOMAIN sol.faculty_slots :
                  /\ ~sol.faculty_slots[e].time_slot[0]
                  /\ sol.faculty_slots[e].time_slot[1]
            \/ \E e \in DOMAIN sol.batch_slots :
                  /\ ~sol.batch_slots[e].time_slot[0]
                  /\ sol.batch_slots[e].time_slot[1]

\* C24: when every linked_subject_id refers to an existing subject, after
\* filter_infeasible_subjects every kept subject whose linked_subject_id is set still
\* links to a kept subject (removing one subject never leaves another unbuildable).
C24_KeptLinksAreKept ==
    pc = "filter_returned" =>
        \A k \in 1..Len(filtered_subjects) :
            (filtered_subjects[k].linked_subject_id # None
                /\ \E x \in Range(subjects) :
                      x.subject_id = filtered_subjects[k].linked_subject_id) =>
                \E j \in 1..Len(filtered_subjects) :
                    filtered_subjects[j].subject_id = filtered_subjects[k].linked_subject_id

\* C25: under apply_slot_oracle_controller, for every faculty slot i, time_slot[i] = 1
\* iff some meeting active for that faculty has start < slot_end(i) and
\* end > slot_start(i); every batch slot overlapped by an external meeting of the batch
\* has time_slot[i] = 1; for every other batch slot, time_slot[i] = 1 iff some meeting
\* active for that batch covers the slot.
C25_SlotOracle ==
    pc = "oracle_solved" =>
        LET G == config.TIME_GRANULARITY_MINUTES
            lo(d, i) == config.DAY_START_MINUTES + d * 1440 + i * G
            m == solver.meetings
            covered(mk, d, i) ==
                /\ mk[3] = d /\ m[mk].is_active
                /\ m[mk].start < lo(d, i) + G /\ m[mk].end > lo(d, i)
            external(b_idx, d, i) ==
                \E k \in DOMAIN batches[b_idx].external_meetings :
                    LET x == batches[b_idx].external_meetings[k]
                    IN /\ x.day_index = d
                       /\ x.start_minutes + d * 1440 < lo(d, i) + G
                       /\ x.end_minutes + d * 1440 > lo(d, i)
        IN /\ \A e \in DOMAIN ts_in.faculty_ghost_grid :
                 \A i \in DOMAIN ts_in.faculty_ghost_grid[e] :
                     ts_in.faculty_ghost_grid[e][i] <=>
                         \E mk \in DOMAIN m :
                             /\ solver.assigned_faculty[<<mk[1], mk[2]>>] = e[1]
                             /\ covered(mk, e[2], i)
           /\ \A e \in DOMAIN ts_in.batch_ghost_grid :
                 \A i \in DOMAIN ts_in.batch_ghost_grid[e] :
                     IF external(e[1], e[2], i)
                     THEN ts_in.batch_ghost_grid[e][i]
                     ELSE ts_in.batch_ghost_grid[e][i] <=>
                             \E mk \in DOMAIN m :
                                 /\ <<mk[1], mk[2], e[1]>> \in DOMAIN solver.section_assignments
                                 /\ solver.section_assignments[<<mk[1], mk[2], e[1]>>]
                                       = batches[e[1]].population
                                 /\ covered(mk, e[2], i)

\* a batch has a slot pinned by an external meeting and a slot occupied by its class,
\* and a faculty has an occupied and a vacant slot on one day
C25_Witness ==
    /\ pc = "oracle_solved"
    /\ \E e \in DOMAIN ts_in.batch_ghost_grid :
          /\ DOMAIN batches[e[1]].external_meetings # {}
          /\ e[2] = 0
          /\ ts_in.batch_ghost_grid[e][0]
    /\ \E e \in DOMAIN ts_in.batch_ghost_grid :
       \E i \in DOMAIN ts_in.batch_ghost_grid[e] :
          /\ ts_in.batch_ghost_grid[e][i]
          /\ \E mk \in DOMAIN solver.meetings :
                /\ mk[3] = e[2] /\ solver.meetings[mk].is_active
                /\ solver.meetings[mk].start
                      = config.DAY_START_MINUTES + e[2] * 1440
                        + i * config.TIME_GRANULARITY_MINUTES
    /\ \E e \in DOMAIN ts_in.faculty_ghost_grid :
       \E i, j \in DOMAIN ts_in.faculty_ghost_grid[e] :
          ts_in.faculty_ghost_grid[e][i] /\ ~ts_in.faculty_ghost_grid[e][j]

\* C26 as stated: in the Pass-2 model, for every faculty f whatever its preferred set,
\* every subject f is qualified for but does not prefer and every section s of it, a
\* non-preferred indicator for (f, sub, s) exists and is 1 iff assigned_faculty[(sub, s)]
\* = f, and each indicator that is 1 adds the non-preferred penalty to the objective.
C26_NonPreferredAnyFaculty ==
    (pc = "returned" /\ solver # NoSolution) =>
        LET ind == faculty_non_preferred_subject(Args, solver)
            pen == non_preferred_penalties(Args, solver)
            w == config.ConstraintPenalties.NON_PREFERRED_SUBJECT_PER_SECTION
        IN \A f_idx \in DOMAIN faculty : \A sub \in Range(subjects) :
              \A s \in 0..(sub.ideal_num_sections - 1) :
                  (/\ sub.subject_id \in faculty[f_idx].qualified_subject_ids
                   /\ sub.subject_id \notin faculty[f_idx].preferred_subject_ids) =>
                      /\ <<f_idx, sub.subject_id, s>> \in DOMAIN ind
                      /\ ind[<<f_idx, sub.subject_id, s>>]
                            <=> solver.assigned_faculty[<<sub.subject_id, s>>] = f_idx
                      /\ pen[<<f_idx, sub.subject_id, s>>]
                            = IF ind[<<f_idx, sub.subject_id, s>>] THEN w ELSE 0

\* C26 amended: the same for every faculty whose preferred set is not empty; a faculty
\* without preferred subjects has no non-preferred indicator and adds no such penalty.
C26_NonPreferredWithPreferences ==
    (pc = "returned" /\ solver # NoSolution) =>
        LET ind == faculty_non_preferred_subject(Args, solver)
            pen == non_preferred_penalties(Args, solver)
            w == config.ConstraintPenalties.NON_PREFERRED_SUBJECT_PER_SECTION
        IN /\ \A f_idx \in DOMAIN faculty : \A sub \in Range(subjects) :
                \A s \in 0..(sub.ideal_num_sections - 1) :
                    (/\ faculty[f_idx].preferred_subject_ids # {}
                     /\ sub.subject_id \in faculty[f_idx].qualified_subject_ids
                     /\ sub.subject_id \notin faculty[f_idx].preferred_subject_ids) =>
                        /\ <<f_idx, sub.subject_id, s>> \in DOMAIN ind
                        /\ ind[<<f_idx, sub.subject_id, s>>]
                              <=> solver.assigned_faculty[<<sub.subject_id, s>>] = f_idx
                        /\ pen[<<f_idx, sub.subject_id, s>>]
                              = IF ind[<<f_idx, sub.subject_id, s>>] THEN w ELSE 0
           /\ \A k \in DOMAIN ind : faculty[k[1]].preferred_subject_ids # {}

\* Pass 2 returns a schedule in which a faculty teaches a section of a subject it is
\* qualified for and does not prefer
C26_Witness ==
    /\ pc = "returned" /\ solver # NoSolution
    /\ results.pass_mode = "pass2"
    /\ \E f_idx \in DOMAIN faculty : \E sub \in Range(subjects) :
          /\ faculty[f_idx].preferred_subject_ids # {}
          /\ sub.subject_id \in faculty[f_idx].qualified_subject_ids
          /\ sub.subject_id \notin faculty[f_idx].preferred_subject_ids
          /\ solver.assigned_faculty[<<sub.subject_id, 0>>] = f_idx

\* C27: run_scheduler fails before any solve, with an error that names the subject id,
\* for every subject that has required_weekly_minutes > 0 and lacks min_meetings or
\* max_meetings, and raises no such error for a subject that defines both.
C27_MissingMeetingsFailFast ==
    pc # "start" =>
        /\ \A sub \in Range(subjects) :
              (/\ sub.required_weekly_minutes > 0
               /\ sub.min_meetings = None \/ sub.max_meetings = None) =>
                  /\ status = "ValueError"
                  /\ status_pass1 = "none" /\ solver = NoSolution /\ results = NoResults
                  /\ RaisedSubject(Args) = sub.subject_id
        /\ \A sub \in Range(subjects) :
              (status = "ValueError" /\ RaisedSubject(Args) = sub.subject_id) =>
                  sub.min_meetings = None \/ sub.max_meetings = None

\* the error is raised and names the subject that has neither bound
C27_Raised ==
    /\ pc = "raised" /\ status = "ValueError"
    /\ \E sub \in Range(subjects) :
          /\ sub.required_weekly_minutes > 0 /\ sub.min_meetings = None
          /\ RaisedSubject(Args) = sub.subject_id

\* C28: in every feasible solution, for every section these three are equivalent:
\* assigned_faculty is the dummy faculty; assigned_room is the dummy room; none of the
\* section's meetings is active.
C28_DummyFacultyRoomNoMeetings ==
    solver # NoSolution =>
        \A key \in DOMAIN solver.assigned_faculty :
            LET dummy_fac == solver.assigned_faculty[key] = len(faculty)
                dummy_rm == solver.assigned_room[key] = len(rooms)
                none_active == \A d_idx \in 0..(len(config.SCHEDULING_DAYS) - 1) :
                                  ~solver.meetings[<<key[1], key[2], d_idx>>].is_active
            IN /\ dummy_fac <=> dummy_rm
               /\ dummy_rm <=> none_active

\* a schedule with a section that has students, the dummy faculty, the dummy room and
\* no active meeting, next to a section with a real faculty, a real room and a meeting
C28_Witness ==
    /\ solver # NoSolution
    /\ \E key \in DOMAIN solver.assigned_faculty :
          /\ solver.section_has_batch[key]
          /\ solver.assigned_faculty[key] = len(faculty)
          /\ solver.assigned_room[key] = len(rooms)
          /\ \A d_idx \in 0..(len(config.SCHEDULING_DAYS) - 1) :
                ~solver.meetings[<<key[1], key[2], d_idx>>].is_active
    /\ \E key \in DOMAIN solver.assigned_faculty :
          /\ solver.assigned_faculty[key] < len(faculty)
          /\ solver.assigned_room[key] < len(rooms)
          /\ \E d_idx \in 0..(len(config.SCHEDULING_DAYS) - 1) :
                solver.meetings[<<key[1], key[2], d_idx>>].is_active

\* C29: in every feasible solution, every section's total active minutes is at most the
\* subject's required_weekly_minutes, and the section's duration_violation indicator is
\* 1 if and only if section_has_batch = 1 and the total is strictly less than
\* required_weekly_minutes.
C29_DurationViolationIndicator ==
    solver # NoSolution =>
        \A key \in DOMAIN solver.section_has_batch :
            LET active == {d_idx \in 0..(len(config.SCHEDULING_DAYS) - 1) :
                              solver.meetings[<<key[1], key[2], d_idx>>].is_active}
                total == SumSet(active, [d_idx \in active |->
                                    solver.meetings[<<key[1], key[2], d_idx>>].duration])
                required == (CHOOSE sub \in Range(subjects) :
                                sub.subject_id = key[1]).required_weekly_minutes
            IN /\ total <= required
               /\ solver.violations.duration_violations[key] = 1
                     <=> (solver.section_has_batch[key] /\ total < required)

\* a section with students meets for a part of its required minutes and is flagged,
\* while a section without students meets for less than its minutes and is not
C29_Witness ==
    /\ solver # NoSolution
    /\ \E key \in DOMAIN solver.section_has_batch :
          LET active == {d_idx \in 0..(len(config.SCHEDULING_DAYS) - 1) :
                            solver.meetings[<<key[1], key[2], d_idx>>].is_active}
          IN /\ solver.section_has_batch[key]
             /\ active # {}
             /\ solver.violations.duration_violations[key] = 1
    /\ \E key \in DOMAIN solver.section_has_batch :
          /\ ~solver.section_has_batch[key]
          /\ solver.violations.duration_violations[key] = 0
          /\ (CHOOSE sub \in Range(subjects) :
                  sub.subject_id = key[1]).required_weekly_minutes > 0

\* C30: in every feasible solution, a faculty or a batch all of whose active class
\* meetings belong to one section that has two or more active meetings has at least one
\* day-gap boolean equal to 1; hence a section with two or more meetings whose faculty
\* and one of whose batches are such puts at least 2 into the Pass-1 structural sum.
C30_SingleSectionDayGap ==
    solver # NoSolution =>
        LET fac_meetings(f_idx) ==
                {mk \in DOMAIN solver.meetings :
                    /\ solver.meetings[mk].is_active
                    /\ solver.assigned_faculty[<<mk[1], mk[2]>>] = f_idx}
            batch_meetings(b_idx) ==
                {mk \in DOMAIN solver.meetings :
                    /\ solver.meetings[mk].is_active
                    /\ <<mk[1], mk[2], b_idx>> \in DOMAIN solver.section_assignments
                    /\ solver.section_assignments[<<mk[1], mk[2], b_idx>>] > 0}
            single(ms) == /\ Cardinality(ms) >= 2
                          /\ \A m1 \in ms : \A m2 \in ms : m1[1] = m2[1] /\ m1[2] = m2[2]
            fac_gap(f_idx) == \E d \in DOMAIN solver.violations.faculty_day_gaps[f_idx] :
                                 solver.violations.faculty_day_gaps[f_idx][d] = 1
            batch_gap(b_idx) == \E d \in DOMAIN solver.violations.batch_day_gaps[b_idx] :
                                   solver.violations.batch_day_gaps[b_idx][d] = 1
        IN /\ \A f_idx \in DOMAIN faculty : single(fac_meetings(f_idx)) => fac_gap(f_idx)
           /\ \A b_idx \in DOMAIN batches : single(batch_meetings(b_idx)) => batch_gap(b_idx)
           /\ (\E f_idx \in DOMAIN faculty : \E b_idx \in DOMAIN batches :
                  /\ single(fac_meetings(f_idx))
                  /\ fac_meetings(f_idx) = batch_meetings(b_idx))
                 => solver.total_structural_violations >= 2

\* a faculty and a batch whose only classes are the two meetings of one section
C30_Witness ==
    /\ solver # NoSolution
    /\ \E f_idx \in DOMAIN faculty : \E b_idx \in DOMAIN batches :
          LET fm == {mk \in DOMAIN solver.meetings :
                        /\ solver.meetings[mk].is_active
                        /\ solver.assigned_faculty[<<mk[1], mk[2]>>] = f_idx}
              bm == {mk \in DOMAIN solver.meetings :
                        /\ solver.meetings[mk].is_active
                        /\ <<mk[1], mk[2], b_idx>> \in DOMAIN solver.section_assignments
                        /\ solver.section_assignments[<<mk[1], mk[2], b_idx>>] > 0}
          IN /\ Cardinality(fm) = 2
             /\ fm = bm
             /\ \A m1 \in fm : \A m2 \in fm : m1[1] = m2[1] /\ m1[2] = m2[2]
             /\ solver.total_structural_violations = 2

====
